---- MODULE Spec2Model ----
(***************************************************************************)
(* Multi-channel CV ingestion: the email channel (email_bot.py), the chat  *)
(* channel (whatsapp_bot.py), the CV parsing orchestrator (cv_parser.py)   *)
(* and the candidate / ledger tables (models.py).                          *)
(*                                                                         *)
(* Conventions.  Python None is the value None below; a Python string is a *)
(* TLA+ string; a text (CV text, mail body) is a sequence of lines or of   *)
(* tokens; a nullable integer key (candidate id, file name) is 0 for None. *)
(***************************************************************************)
EXTENDS Integers, Sequences, FiniteSets, TLC

None == "None"

\* Python truthiness of a string-or-None value
Falsy(v) == v = None \/ v = ""

\* dict.get(k, default)
Get(d, k, default) == IF k \in DOMAIN d THEN d[k] ELSE default

\* dict[k] = v (adds the key when missing)
Put(d, k, v) == [x \in (DOMAIN d) \cup {k} |-> IF x = k THEN v ELSE d[x]]

-----------------------------------------------------------------------------
(* Bounds of the model *)

\* messages handed to the two channel handlers in one behaviour
MaxMsgs == 2

-----------------------------------------------------------------------------
(* Character / token tables: what the regular expressions and the string   *)
(* tests of the source see in the strings of the model.                    *)

\* characters of a phone number (str iteration)
Chars(s) ==
  CASE s = "4915" -> <<"4", "9", "1", "5">>
    [] s = "1555" -> <<"1", "5", "5", "5">>
    [] s = "4930" -> <<"4", "9", "3", "0">>
    [] s = "1556" -> <<"1", "5", "5", "6">>
    [] s = "+1-555-0100" -> <<"+", "1", "-", "5", "5", "5", "-", "0", "1", "0", "0">>
    [] OTHER -> <<>>

\* tokens of a From header value
HeaderTokens(s) ==
  CASE s = "jane@x.com" -> <<"jane@x.com">>
    [] s = "Jane Doe <jane@x.com>" -> <<"Jane Doe", " ", "<", "jane@x.com", ">">>
    [] OTHER -> <<s>>

\* [a-zA-Z0-9._%+-]+@[a-zA-Z0-9.-]+\.[a-zA-Z]{2,}
IsAddrToken(t) == t \in {"jane@x.com", "bob@y.org"}

\* addr.split('@')[0]
LocalPart(a) ==
  CASE a = "jane@x.com" -> "jane"
    [] a = "bob@y.org" -> "bob"
    [] OTHER -> a

\* filename.lower() extension
LowerExt(f) ==
  CASE f = "cv.pdf" -> ".pdf"
    [] f = "CV.PDF" -> ".pdf"
    [] f = "scan.pdf" -> ".pdf"
    [] f = "pic.png" -> ".png"
    [] f = "cv.docx" -> ".docx"
    [] f = "cv.txt" -> ".txt"
    [] f = "CV.DOC" -> ".doc"
    [] OTHER -> ""

\* text.lower() contains the keyword
LowerContains(text, kw) ==
  CASE text = "Any Jobs?" -> kw = "job"
    [] text = "My CV" -> kw = "cv"
    [] text = "hi" -> FALSE
    [] OTHER -> FALSE

-----------------------------------------------------------------------------
(* Pure helpers of the two channels *)

\* re.search: the leftmost of the positions where the pattern matches, 0 when
\* there is none
FirstIndex(S) ==
  IF S = {} THEN 0 ELSE CHOOSE i \in S : \A j \in S : i <= j

\* '<(.+?)>' matches at i
AngleAt(toks, i) ==
  toks[i] = "<" /\ \E j \in (i + 2)..Len(toks) : toks[j] = ">"

\* the email alternative of email_pattern matches at i
EmailPatternAt(toks, i) == AngleAt(toks, i) \/ IsAddrToken(toks[i])

\* group(1): what stands between '<' at i and the first '>' after it
RECURSIVE Join(_)
Join(toks) == IF toks = <<>> THEN "" ELSE Head(toks) \o Join(Tail(toks))

ClosingAfter(toks, i) ==
  CHOOSE j \in (i + 2)..Len(toks) :
    toks[j] = ">" /\ \A k \in (i + 2)..(j - 1) : toks[k] # ">"

\* str.strip() on tokens
RECURSIVE StripTokens(_)
StripTokens(toks) ==
  IF toks = <<>> THEN <<>>
  ELSE IF Head(toks) = " " THEN StripTokens(Tail(toks))
  ELSE IF toks[Len(toks)] = " " THEN StripTokens(SubSeq(toks, 1, Len(toks) - 1))
  ELSE toks

NameTestAt(toks, i) == i >= 2 /\ toks[i] = "<"

extract_email_info(sender) ==
  LET toks == HeaderTokens(sender)
      m == FirstIndex({k \in 1..Len(toks) : EmailPatternAt(toks, k)})
      email_addr ==
        IF m = 0 THEN sender
        ELSE IF AngleAt(toks, m)
             THEN Join(SubSeq(toks, m + 1, ClosingAfter(toks, m) - 1))
             ELSE toks[m]
      n == FirstIndex({k \in 1..Len(toks) : NameTestAt(toks, k)})
      name ==
        IF n # 0 THEN Join(StripTokens(SubSeq(toks, 1, n - 1)))
        ELSE LocalPart(email_addr)
  IN  <<name, email_addr>>

\* EmailBot.is_eu_phone_number: some code occurs in the text
email_eu_codes ==
  {"+44", "+49", "+33", "+39", "+34", "+31", "+32", "+48", "+43", "+45",
   "+46", "+47", "+41"}

email_is_eu(body) == \E i \in 1..Len(body) : body[i] \in email_eu_codes

\* WhatsAppBot.is_eu_phone_number: the cleaned number starts with a code
wa_eu_codes ==
  {<<"4", "4">>, <<"4", "9">>, <<"3", "3">>, <<"3", "9">>, <<"3", "4">>,
   <<"3", "1">>, <<"3", "2">>, <<"4", "8">>, <<"4", "3">>, <<"4", "5">>,
   <<"4", "6">>, <<"4", "7">>, <<"4", "1">>}

CleanPhone(cs) == SelectSeq(cs, LAMBDA c : c \notin {"+", " ", "-"})

StartsWith(cs, pre) == Len(cs) >= Len(pre) /\ SubSeq(cs, 1, Len(pre)) = pre

wa_is_eu(phone_number) ==
  \E code \in wa_eu_codes : StartsWith(CleanPhone(Chars(phone_number)), code)

cv_extensions == {".pdf", ".doc", ".docx", ".txt"}

IsCvFilename(filename) == LowerExt(filename) \in cv_extensions

-----------------------------------------------------------------------------
(* cv_parser.py.  A stored file is [filename, content]; its content is     *)
(* [text, ai]: the text the format's extractor gets out of the bytes       *)
(* (<<>> for a corrupt or empty file) and the answer of the completion     *)
(* service for that text.  A text is a sequence of lines, a line a         *)
(* sequence of words.  JSON values of the service are tagged.              *)

JNull == [t |-> "null"]
JStr(cs) == [t |-> "str", s |-> cs]
JInt(i) == [t |-> "int", n |-> i]
JList(xs) == [t |-> "list", l |-> xs]
JBool(b) == [t |-> "bool", b |-> b]

IsList(j) == j.t = "list"

\* the outcome of a call: the value returned, or the exception raised
Return(v) == [kind |-> "return", value |-> v]

Raise(e) == [kind |-> "raise", exc |-> e]

\* try: body, except Exception: return v
ExceptReturn(body, v) == IF body.kind = "raise" THEN Return(v) ELSE body

\* what is at the path: no file ("missing"), a file the process may not
\* open ("unreadable"), a file of zero bytes ("empty"), bytes the reader of
\* the format cannot decode ("corrupt": not a PDF, not a DOCX package, not
\* UTF-8), or the stored document
FileStates == {"missing", "unreadable", "empty", "corrupt", "stored"}

FileState(file) == Get(file, "state", "stored")

\* str.strip() of a text: the blank lines at both ends go
RECURSIVE Strip(_)
Strip(lines) ==
  IF lines = <<>> THEN <<>>
  ELSE IF Head(lines) = <<>> THEN Strip(Tail(lines))
  ELSE IF lines[Len(lines)] = <<>> THEN Strip(SubSeq(lines, 1, Len(lines) - 1))
  ELSE lines

\* open(filepath, ...): the exception it raises, "" when it opens the file
OpenError(file) ==
  CASE FileState(file) = "missing" -> "FileNotFoundError"
    [] FileState(file) = "unreadable" -> "PermissionError"
    [] OTHER -> ""

\* lines 23-30: PyPDF2.PdfReader, the text of the pages, strip
ReadPdf(file) ==
  IF OpenError(file) # "" THEN Raise(OpenError(file))
  ELSE IF FileState(file) \in {"empty", "corrupt"} THEN Raise("PdfReadError")
  ELSE Return(Strip(file.content.text))

\* an extractor without its except clause
extract_text_from_pdf_unguarded(file) == ReadPdf(file)

\* lines 21-35
extract_text_from_pdf(file) == ExceptReturn(ReadPdf(file), <<>>)

\* lines 39-46: docx.Document, the text of the paragraphs, strip
ReadDocx(file) ==
  IF OpenError(file) # "" THEN Raise(OpenError(file))
  ELSE IF FileState(file) \in {"empty", "corrupt"} THEN Raise("PackageNotFoundError")
  ELSE Return(Strip(file.content.text))

\* lines 37-50
extract_text_from_docx(file) == ExceptReturn(ReadDocx(file), <<>>)

\* open(filepath, 'r', encoding=...) and file.read().strip(): latin-1
\* decodes every byte sequence
ReadText(file, encoding) ==
  IF OpenError(file) # "" THEN Raise(OpenError(file))
  ELSE IF FileState(file) = "empty" THEN Return(<<>>)
  ELSE IF FileState(file) = "corrupt" /\ encoding = "utf-8"
  THEN Raise("UnicodeDecodeError")
  ELSE Return(Strip(file.content.text))

\* lines 52-69: UTF-8 first, latin-1 after a UnicodeDecodeError
extract_text_from_txt(file) ==
  LET utf8 == ReadText(file, "utf-8")
  IN  IF utf8.kind = "raise" /\ utf8.exc = "UnicodeDecodeError"
      THEN ExceptReturn(ReadText(file, "latin-1"), <<>>)
      ELSE ExceptReturn(utf8, <<>>)

\* lines 71-87
extract_text_from_file(file) ==
  LET file_extension == LowerExt(file.filename)
  IN  IF FileState(file) = "missing" THEN Return(<<>>)
      ELSE IF file_extension = ".pdf" THEN extract_text_from_pdf(file)
      ELSE IF file_extension = ".docx" THEN extract_text_from_docx(file)
      ELSE IF file_extension \in {".txt", ".doc"} THEN extract_text_from_txt(file)
      ELSE Return(<<>>)

IsDigit(c) == c \in {"0", "1", "2", "3", "4", "5", "6", "7", "8", "9"}

DigitVal(c) ==
  CASE c = "0" -> 0 [] c = "1" -> 1 [] c = "2" -> 2 [] c = "3" -> 3
    [] c = "4" -> 4 [] c = "5" -> 5 [] c = "6" -> 6 [] c = "7" -> 7
    [] c = "8" -> 8 [] c = "9" -> 9

\* int() of the leading digits of cs, acc the value read so far
RECURSIVE LeadingInt(_, _)
LeadingInt(cs, acc) ==
  IF cs = <<>> \/ ~IsDigit(Head(cs)) THEN acc
  ELSE LeadingInt(Tail(cs), 10 * acc + DigitVal(Head(cs)))

DigitAt(cs, i) == IsDigit(cs[i])

\* re.search(r'\d+', s): <<found, value>>
SearchInt(cs) ==
  LET i == FirstIndex({k \in 1..Len(cs) : DigitAt(cs, k)})
  IN  IF i = 0 THEN <<FALSE, 0>>
      ELSE <<TRUE, LeadingInt(SubSeq(cs, i, Len(cs)), 0)>>

default_profile ==
  [name |-> None, email |-> None, phone |-> None, location |-> None,
   summary |-> None, skills |-> <<>>, experience_years |-> 0,
   education |-> <<>>, work_experience |-> <<>>]

\* the list-coercion of one key: a non-list becomes [], a list stays
CoerceList(result, k) ==
  IF k \in DOMAIN result
  THEN Put(result, k, IF IsList(result[k]) THEN result[k].l ELSE <<>>)
  ELSE result

\* lines 148-155.  isinstance(exp_years, int) holds of a JSON true or
\* false as well: bool is a subclass of int, True == 1 and False == 0, and
\* the value is left as it is
NormalizeExperience(result) ==
  LET exp_years == Get(result, "experience_years", JNull)
  IN  IF exp_years.t = "str" /\ exp_years.s # <<>>
      THEN Put(result, "experience_years",
               IF SearchInt(exp_years.s)[1] THEN SearchInt(exp_years.s)[2] ELSE 0)
      ELSE IF exp_years.t = "int"
      THEN Put(result, "experience_years", exp_years.n)
      ELSE IF exp_years.t = "bool"
      THEN Put(result, "experience_years", IF exp_years.b THEN 1 ELSE 0)
      ELSE Put(result, "experience_years", 0)

\* lines 91-157: the completion call, json.loads and the clean-up.  The
\* client raises on a network error and on an error response, json.loads
\* on malformed JSON, result.get on JSON that is not an object
Completion(cv_text, ai) ==
  CASE ai.kind = "network_error" -> Raise("APIConnectionError")
    [] ai.kind = "error" -> Raise("APIStatusError")
    [] ai.kind = "malformed" -> Raise("JSONDecodeError")
    [] ai.kind = "non_object" -> Raise("AttributeError")
    [] OTHER ->
         Return(NormalizeExperience(
           CoerceList(CoerceList(CoerceList(ai.result, "skills"), "education"),
                      "work_experience")))

\* a parser without its except clause
parse_cv_with_ai_unguarded(cv_text, ai) == Completion(cv_text, ai)

\* lines 89-171
parse_cv_with_ai(cv_text, ai) ==
  ExceptReturn(Completion(cv_text, ai), default_profile)

\* the words of a text, in reading order
RECURSIVE Flatten(_)
Flatten(lines) ==
  IF lines = <<>> THEN <<>> ELSE Head(lines) \o Flatten(Tail(lines))

IsPhoneToken(t) == t \in {"+1-555-0100"}

HasDigit(t) == t \in {"5", "7", "+1-555-0100"}

AddrAt(ws, i) == IsAddrToken(ws[i])

PhoneAt(ws, i) == IsPhoneToken(ws[i])

\* ' '.join(words)
RECURSIVE JoinWords(_)
JoinWords(ws) ==
  IF ws = <<>> THEN ""
  ELSE IF Len(ws) = 1 THEN ws[1]
  ELSE ws[1] \o " " \o JoinWords(Tail(ws))

NameLineAt(lines, i) ==
  /\ i <= 5
  /\ lines[i] # <<>>
  /\ \A k \in 1..Len(lines[i]) : ~HasDigit(lines[i][k])
  /\ Len(lines[i]) >= 2

extract_basic_info_regex(text) ==
  LET ws == Flatten(text)
      e == FirstIndex({k \in 1..Len(ws) : AddrAt(ws, k)})
      p == FirstIndex({k \in 1..Len(ws) : PhoneAt(ws, k)})
      n == FirstIndex({k \in 1..Len(text) : NameLineAt(text, k)})
  IN  [email |-> IF e = 0 THEN None ELSE ws[e],
       phone |-> IF p = 0 THEN None ELSE ws[p],
       name |-> IF n = 0 THEN None ELSE JoinWords(text[n])]

\* lines 207-218: the profile returned for a file without text
no_text_profile == Put(default_profile, "text", <<>>)

\* line 225: the test that sends parse_cv_file to the fallback
NeedsFallback(cv_data) ==
  Falsy(Get(cv_data, "email", None)) \/ Falsy(Get(cv_data, "name", None))

\* a fallback that writes every field it found
FillAlways(cv_data, basic_info, k) ==
  IF ~Falsy(basic_info[k]) THEN Put(cv_data, k, basic_info[k]) ELSE cv_data

\* lines 228-235, one field: if not cv_data.get(k) and basic_info.get(k)
Fill(cv_data, basic_info, k) ==
  IF Falsy(Get(cv_data, k, None)) /\ ~Falsy(basic_info[k])
  THEN Put(cv_data, k, basic_info[k])
  ELSE cv_data

\* lines 226-235
Fallback(cv_data, basic_info) ==
  Fill(Fill(Fill(cv_data, basic_info, "email"), basic_info, "name"),
       basic_info, "phone")

\* lines 200-239: an exception of a callee leaves parse_cv_file
parse_cv_file(file) ==
  LET extracted == extract_text_from_file(file)
      cv_text == extracted.value
      parsed == parse_cv_with_ai(cv_text, file.content.ai)
      cv_data == Put(parsed.value, "text", cv_text)
  IN  IF extracted.kind = "raise" THEN extracted
      ELSE IF cv_text = <<>> THEN Return(no_text_profile)
      ELSE IF parsed.kind = "raise" THEN parsed
      ELSE IF NeedsFallback(cv_data)
      THEN Return(Fallback(cv_data, extract_basic_info_regex(cv_text)))
      ELSE Return(cv_data)

\* lines 241-243
parse_cv_text(file) == parse_cv_file(file)

-----------------------------------------------------------------------------
(* Inputs: the documents, the emails and the chat messages of the model.   *)

AiObject(r) == [kind |-> "object", result |-> r]

AiError == [kind |-> "error", result |-> <<>>]

\* a full CV: every field found by the service
CvJane ==
  [text |-> << <<"Jane", "Doe">>, <<"jane@x.com">>, <<"5", "years", "Go">> >>,
   ai |-> AiObject(
     [name |-> "Jane Doe", email |-> "jane@x.com", phone |-> "+1-555-0100",
      location |-> "Berlin", summary |-> "Go developer",
      skills |-> JList(<<"Go">>),
      experience_years |-> JStr(<<"5", " ", "y", "e", "a", "r", "s">>),
      education |-> JList(<<"BSc">>), work_experience |-> JList(<<"Acme">>)])]

\* a later CV of the same person: no phone, no location found
CvJaneUpdate ==
  [text |-> << <<"Jane", "Doe">>, <<"jane@x.com">>, <<"Rust">> >>,
   ai |-> AiObject(
     [name |-> "Jane Doe", email |-> "jane@x.com", phone |-> None,
      location |-> None, summary |-> "Rust developer",
      skills |-> JList(<<"Go", "Rust">>), experience_years |-> JInt(7),
      education |-> JStr(<<"n", "/", "a">>), work_experience |-> JList(<<>>)])]

\* a CV without any email address; the service omits some keys
CvSam ==
  [text |-> << <<"Sam", "Roe">>, <<"Rust">> >>,
   ai |-> AiObject(
     [email |-> None, phone |-> None, summary |-> None,
      skills |-> JList(<<"Rust">>), experience_years |-> JStr(<<"f", "i", "v", "e">>)])]

\* a file no text can be extracted from
CvBlank == [text |-> <<>>, ai |-> AiError]

NoContent == [text |-> <<>>, ai |-> AiError]

EuBody == <<"call", "+49", "170">>

OtherBody == <<"hello">>

Attachment(f, c) == [filename |-> f, content |-> c]

Email(from, subject, body, attachments) ==
  [from |-> from, id |-> subject, type |-> "email", filename |-> "",
   text |-> "", content |-> NoContent, body |-> body,
   attachments |-> attachments]

Emails ==
  {Email("jane@x.com", "Application", EuBody, <<Attachment("cv.pdf", CvJane)>>),
   Email("jane@x.com", "Application", OtherBody, <<>>),
   Email("Jane Doe <jane@x.com>", "Application", EuBody,
         <<Attachment("pic.png", NoContent), Attachment("CV.PDF", CvJaneUpdate)>>),
   Email("jane@x.com", "Hello", EuBody, <<Attachment("cv.pdf", CvBlank)>>)}

\* the messages of an inbox: the emails and one that another sender sends
\* with the CV of Jane Doe attached
InboxMessages ==
  Emails \cup
    {Email("bob@y.org", "Application", EuBody, <<Attachment("cv.pdf", CvJane)>>),
     Email("bob@y.org", "Application", OtherBody, <<>>)}

Chat(from, id, type, filename, text, content) ==
  [from |-> from, id |-> id, type |-> type, filename |-> filename,
   text |-> text, content |-> content, body |-> <<>>, attachments |-> <<>>]

ChatMessages ==
  {Chat("4915", "wamid.1", "document", "cv.pdf", "", CvJaneUpdate),
   Chat("4915", "wamid.2", "document", "cv.pdf", "", CvSam),
   Chat("4915", "wamid.3", "document", "scan.pdf", "", CvBlank),
   Chat("4915", "wamid.4", "document", "pic.png", "", NoContent),
   Chat("4915", "wamid.5", "text", "", "Any Jobs?", NoContent),
   Chat("1555", "wamid.6", "text", "", "hi", NoContent),
   Chat("4915", "wamid.7", "image", "", "", NoContent)}

\* the messages a webhook payload can hold: the chat messages and a second
\* CV without an email address, sent from the phone of wamid.2
PayloadMessages ==
  ChatMessages \cup
    {Chat("4915", "wamid.8", "document", "cv.pdf", "", CvSam),
     \* messages from two other phones
     Chat("4930", "wamid.9", "document", "cv.pdf", "", CvSam),
     Chat("4930", "wamid.10", "document", "pic.png", "", NoContent),
     Chat("4930", "wamid.11", "text", "", "Any Jobs?", NoContent),
     Chat("1556", "wamid.12", "text", "", "hi", NoContent)}

NoMsg == Chat("", "", "none", "", "", NoContent)

-----------------------------------------------------------------------------
(* State *)

VARIABLES
  candidates,      \* the Candidate table: row id -> row
  email_log,       \* the EmailLog table: a set of rows
  whatsapp_log,    \* the WhatsAppLog table: a set of rows
  uploads,         \* the cv_filenames written to UPLOAD_FOLDER
  now,             \* the clock read by datetime.utcnow()
  filter_eu_only,  \* FILTER_EU_ONLY
  runs,            \* the handler invocations: position, locals, effects
  started,         \* number of invocations started
  poller,          \* EmailBot.start_monitoring: position, mailbox, locals
  webhook,         \* WhatsAppBot.handle_webhook: position, payload, locals
  parser           \* cv_parser.parse_cv_file: position, file, locals

vars ==
  <<candidates, email_log, whatsapp_log, uploads, now, filter_eu_only,
    runs, started, poller, webhook, parser>>

RunIds == 1..MaxMsgs

Stopped == {"done", "raised", "crashed"}

\* a handler invocation before it is started
IdleRun ==
  [chan |-> "none", pc |-> "idle", msg |-> NoMsg,
   \* locals of the handler
   sender_name |-> "", sender_email_clean |-> "", existing_candidate |-> 0,
   cv_filename |-> 0, cv_data |-> default_profile, candidate |-> 0,
   exc |-> "", session_failed |-> FALSE,
   \* what the invocation has done so far: the invocations it overlapped
   \* with, whether the ledger had an entry of the message when it started,
   \* whether the dedup check skipped it, the ledger statuses it wrote, its
   \* candidate write, the replies it handed out, whether it parsed a file,
   \* the status of the row it merged its profile into
   peers |-> {}, fresh |-> FALSE, skipped |-> FALSE, wrote |-> <<>>,
   mutated |-> "no", sent |-> <<>>, parsed |-> FALSE, status_found |-> "",
   \* the replies that send_reply or send_message returned False for
   lost |-> <<>>]

Active(i) == runs[i].pc \notin (Stopped \cup {"idle"})

ActiveRuns == {i \in RunIds : Active(i)}

\* start_monitoring before it is started: no mailbox, nothing polled
IdlePoller ==
  [pc |-> "idle", inbox |-> <<>>, seen |-> {}, cycle |-> 0,
   \* EMAIL_USER and EMAIL_PASSWORD are both set
   credentials |-> TRUE,
   \* locals of check_emails
   email_ids |-> <<>>, pos |-> 0, run |-> 0,
   \* what the current cycle has done: the messages it tried to fetch, how
   \* it ended, and the seconds start_monitoring then slept
   \* and how the cycle before it ended
   attempted |-> <<>>, outcome |-> "", slept |-> 0, last |-> ""]

\* handle_webhook before it is called
IdleWebhook ==
  [pc |-> "idle", data |-> "none", messages |-> <<>>, pos |-> 0, fault |-> ""]

\* parse_cv_file before it is called
IdleParser ==
  [pc |-> "idle", file |-> [filename |-> "", content |-> NoContent],
   \* locals of parse_cv_file
   cv_text |-> <<>>, ai_data |-> <<>>, cv_data |-> <<>>, basic_info |-> <<>>,
   \* the functions called so far and the exception that left parse_cv_file
   calls |-> <<>>, raised |-> ""]

\* the store, the upload folder, the clock and the flag at start
InitStore ==
  /\ candidates = <<>>
  /\ email_log = {}
  /\ whatsapp_log = {}
  /\ uploads = {}
  /\ now = 1
  /\ filter_eu_only \in BOOLEAN
  /\ runs = [i \in RunIds |-> IdleRun]
  /\ started = 0

Init ==
  /\ InitStore
  /\ poller = IdlePoller
  /\ webhook = IdleWebhook
  /\ parser = IdleParser

-----------------------------------------------------------------------------
(* The tables (models.py).  A row id is the number of the invocation that  *)
(* inserted the row: no two rows of a table get the same id.               *)

Candidate(name, email, phone, location, cv_filename, cv_data, source, source_reference, t) ==
  [name |-> name, email |-> email, phone |-> phone, location |-> location,
   status |-> "new",
   cv_filename |-> cv_filename,
   cv_text |-> Get(cv_data, "text", None),
   skills |-> Get(cv_data, "skills", <<>>),
   experience_years |-> Get(cv_data, "experience_years", None),
   education |-> Get(cv_data, "education", <<>>),
   work_experience |-> Get(cv_data, "work_experience", <<>>),
   summary |-> Get(cv_data, "summary", None),
   source |-> source, source_reference |-> source_reference,
   created_at |-> t, last_updated |-> t]

CandidateIds == DOMAIN candidates

\* Candidate.query.filter_by(email=...).first(): the row id, 0 for None
CandidateByEmail(email) ==
  LET S == {k \in CandidateIds : candidates[k].email = email}
  IN  IF S = {} THEN 0 ELSE CHOOSE k \in S : \A j \in S : k <= j

\* INSERT without the UNIQUE constraint on email
InsertAllowedNoUnique(row) ==
  /\ row.name # None
  /\ row.email # None

\* the constraints of the Candidate table that INSERT checks:
\* name and email NOT NULL, email UNIQUE
InsertAllowed(row) ==
  /\ row.name # None
  /\ row.email # None
  /\ \A k \in CandidateIds : candidates[k].email # row.email

EmailLog(id, sender_email, subject, candidate_id, status, error_message) ==
  [id |-> id, sender_email |-> sender_email, subject |-> subject,
   candidate_id |-> candidate_id, status |-> status,
   error_message |-> error_message]

WhatsAppLog(id, phone_number, message_id, candidate_id, status, error_message) ==
  [id |-> id, phone_number |-> phone_number, message_id |-> message_id,
   candidate_id |-> candidate_id, status |-> status,
   error_message |-> error_message]

\* EmailLog.query.filter_by(sender_email=..., subject=...).first() is not None
EmailLogged(sender_email, subject) ==
  \E e \in email_log : e.sender_email = sender_email /\ e.subject = subject

\* WhatsAppLog.query.filter_by(phone_number=..., message_id=...).first() is not None
WhatsAppLogged(phone_number, message_id) ==
  \E e \in whatsapp_log : e.phone_number = phone_number /\ e.message_id = message_id

-----------------------------------------------------------------------------
(* Starting a handler invocation.  The poller is one worker: it calls      *)
(* process_email for one message at a time.  Webhook deliveries overlap.   *)

Begin(i, r) ==
  /\ started < MaxMsgs
  /\ i = started + 1
  /\ started' = i
  /\ runs' = [j \in RunIds |->
       IF j = i THEN [r EXCEPT !.peers = ActiveRuns]
       ELSE IF j \in ActiveRuns
       THEN [runs[j] EXCEPT !.peers = @ \cup {i}]
       ELSE runs[j]]
  /\ UNCHANGED <<candidates, email_log, whatsapp_log, uploads, now, filter_eu_only, poller, webhook, parser>>

\* the ledger entries of an email: written under the cleaned address, or
\* under the header value by the error path
EmailEntries(m) ==
  {e \in email_log :
     /\ e.subject = m.id
     /\ e.sender_email \in {m.from, extract_email_info(m.from)[2]}}

ChatEntries(m) ==
  {e \in whatsapp_log : e.phone_number = m.from /\ e.message_id = m.id}

\* the recipients the SMTP server or the chat API refuses a message to
Unreachable == {"bob@y.org", "4930", "1556"}

\* email_bot.py 92-112: True when the SMTP session accepted the message,
\* False when any of its steps raised
send_reply(to_email) == to_email \notin Unreachable

\* whatsapp_bot.py 25-52: True on status 200, False on another status or
\* when the request raised
send_message(to_phone) == to_phone \notin Unreachable

\* the call of send_reply or send_message by the handler r
Delivered(r) ==
  IF r.chan = "email" THEN send_reply(r.sender_email_clean)
  ELSE send_message(r.msg.from)

\* a handler that lets a failed send raise
SentRaises(r, kind) ==
  IF Delivered(r)
  THEN [r EXCEPT !.sent = Append(@, kind)]
  ELSE [r EXCEPT !.sent = Append(@, kind), !.lost = Append(@, kind),
                 !.pc = "except", !.exc = "SendError"]

\* the handler calls send_reply / send_message and does not look at what
\* it returns: a failure to send is logged and never raised
Sent(r, kind) ==
  IF Delivered(r)
  THEN [r EXCEPT !.sent = Append(@, kind)]
  ELSE [r EXCEPT !.sent = Append(@, kind), !.lost = Append(@, kind)]

Goto(r, pc) == [r EXCEPT !.pc = pc]

\* cv_data = parse_cv_text(filepath): the profile is kept and the handler
\* goes on, or the exception of the parser reaches the except clause
Parsed(r, outcome, pc) ==
  IF outcome.kind = "raise"
  THEN [r EXCEPT !.pc = "except", !.exc = outcome.exc]
  ELSE [r EXCEPT !.pc = pc, !.cv_data = outcome.value, !.parsed = TRUE]

\* check_emails hands the next fetched message to process_email, which
\* first looks the message up in the ledger (lines 118-126)
StartEmail(i, m) ==
  /\ m \in InboxMessages
  /\ \A j \in ActiveRuns : runs[j].chan # "email"
  /\ LET r == [IdleRun EXCEPT !.chan = "email", !.msg = m,
                              !.fresh = (EmailEntries(m) = {})]
     IN  IF EmailLogged(m.from, m.id)
         THEN Begin(i, [r EXCEPT !.pc = "done", !.skipped = TRUE])
         ELSE Begin(i, Goto(r, "lookup"))

\* a handler whose filter branch is never taken
StartWebhookNoGate(i, m) ==
  /\ m \in PayloadMessages
  /\ LET r == [IdleRun EXCEPT !.chan = "whatsapp", !.msg = m,
                              !.fresh = (ChatEntries(m) = {})]
     IN  IF WhatsAppLogged(m.from, m.id)
         THEN Begin(i, [r EXCEPT !.pc = "done", !.skipped = TRUE])
         ELSE Begin(i, Goto(r, "dispatch"))

\* handle_webhook hands a delivered message to process_whatsapp_message,
\* which first looks the message up in the ledger (lines 101-112) and then
\* applies the filter (lines 114-120)
StartWebhook(i, m) ==
  /\ m \in PayloadMessages
  /\ LET r == [IdleRun EXCEPT !.chan = "whatsapp", !.msg = m,
                              !.fresh = (ChatEntries(m) = {})]
     IN  IF WhatsAppLogged(m.from, m.id)
         THEN Begin(i, [r EXCEPT !.pc = "done", !.skipped = TRUE])
         ELSE IF filter_eu_only /\ ~wa_is_eu(m.from)
         THEN Begin(i, Sent(Goto(r, "log_filtered"), "rejection"))
         ELSE Begin(i, Goto(r, "dispatch"))

At(i, chan, pc) == runs[i].chan = chan /\ runs[i].pc = pc

\* the invocation moves on; nothing but its own record changes
Local(i, r) ==
  /\ runs' = [runs EXCEPT ![i] = r]
  /\ UNCHANGED <<candidates, email_log, whatsapp_log, uploads, now,
                 filter_eu_only, poller, webhook, parser, started>>

-----------------------------------------------------------------------------
(* EmailBot.process_email *)

\* lines 128-157: the sender's candidate is looked up, then the filter
\* is applied to the body
EmailLookup(i) ==
  /\ At(i, "email", "lookup")
  /\ LET info == extract_email_info(runs[i].msg.from)
         r == [runs[i] EXCEPT !.sender_name = info[1],
                              !.sender_email_clean = info[2],
                              !.existing_candidate = CandidateByEmail(info[2])]
     IN  IF filter_eu_only /\ ~email_is_eu(runs[i].msg.body)
         THEN Local(i, Sent(Goto(r, "log_filtered"), "rejection"))
         ELSE Local(i, Goto(r, "attachments"))

\* a ledger that keeps one row per sender and subject: the write replaces
\* the rows of the message
EmailLogWriteReplaces(i, sender_email, candidate_id, status, error_message) ==
  /\ email_log' =
       {e \in email_log : ~(e.sender_email = sender_email /\ e.subject = runs[i].msg.id)}
         \cup
       {EmailLog(i, sender_email, runs[i].msg.id, candidate_id, status, error_message)}
  /\ runs' = [runs EXCEPT ![i] = [@ EXCEPT !.pc = "done", !.wrote = Append(@, status)]]
  /\ UNCHANGED <<candidates, whatsapp_log, uploads, now, filter_eu_only, poller, webhook, parser, started>>

\* the INSERT of one EmailLog row and its commit
EmailLogWrite(i, sender_email, candidate_id, status, error_message) ==
  /\ email_log' = email_log \cup
       {EmailLog(i, sender_email, runs[i].msg.id, candidate_id, status, error_message)}
  /\ runs' = [runs EXCEPT ![i] = [@ EXCEPT !.pc = "done", !.wrote = Append(@, status)]]
  /\ UNCHANGED <<candidates, whatsapp_log, uploads, now, filter_eu_only, poller, webhook, parser, started>>

\* lines 159-167
EmailLogFiltered(i) ==
  /\ At(i, "email", "log_filtered")
  /\ EmailLogWrite(i, runs[i].sender_email_clean, 0, "filtered_non_eu", None)

\* extract_cv_attachments
extract_cv_attachments(m) ==
  SelectSeq(m.attachments, LAMBDA a : IsCvFilename(a.filename))

\* a branch that logs cv_requested without asking for the CV
EmailNoAttachmentSilent(i) ==
  /\ At(i, "email", "attachments")
  /\ extract_cv_attachments(runs[i].msg) = <<>>
  /\ IF runs[i].existing_candidate = 0
     THEN Local(i, Goto(runs[i], "log_cv_requested"))
     ELSE Local(i, [runs[i] EXCEPT !.pc = "confirm",
                                   !.candidate = runs[i].existing_candidate])

\* lines 169-184 and 195-196: no CV and no candidate asks for a CV
EmailNoAttachment(i) ==
  /\ At(i, "email", "attachments")
  /\ extract_cv_attachments(runs[i].msg) = <<>>
  /\ IF runs[i].existing_candidate = 0
     THEN Local(i, Sent(Goto(runs[i], "log_cv_requested"), "cv_request"))
     ELSE Local(i, [runs[i] EXCEPT !.pc = "confirm",
                                   !.candidate = runs[i].existing_candidate])

\* lines 195-204: the first CV is saved and parsed; save_attachment may
\* fail on the file write
EmailAttachment(i) ==
  /\ At(i, "email", "attachments")
  /\ extract_cv_attachments(runs[i].msg) # <<>>
  /\ LET attachment == extract_cv_attachments(runs[i].msg)[1]
     IN  \E written \in BOOLEAN :
           IF written
           THEN /\ uploads' = uploads \cup {i}
                /\ runs' = [runs EXCEPT ![i] =
                     Parsed([@ EXCEPT !.candidate = runs[i].existing_candidate,
                                      !.cv_filename = i],
                            parse_cv_text(attachment), "upsert")]
           ELSE /\ runs' = [runs EXCEPT ![i] = [@ EXCEPT !.pc = "except",
                                                         !.exc = "OSError"]]
                /\ UNCHANGED uploads
  /\ UNCHANGED <<candidates, email_log, whatsapp_log, now, filter_eu_only, poller, webhook, parser, started>>

\* lines 186-193
EmailLogCvRequested(i) ==
  /\ At(i, "email", "log_cv_requested")
  /\ EmailLogWrite(i, runs[i].sender_email_clean, 0, "cv_requested", None)

\* a merge that also takes the phone of the profile, as the INSERT does
EmailMergeProfilePhone(c, cv_filename, cv_data, t) ==
  [c EXCEPT !.phone = Get(cv_data, "phone", None),
            !.cv_filename = cv_filename,
            !.cv_text = Get(cv_data, "text", None),
            !.skills = Get(cv_data, "skills", <<>>),
            !.experience_years = Get(cv_data, "experience_years", None),
            !.education = Get(cv_data, "education", <<>>),
            !.work_experience = Get(cv_data, "work_experience", <<>>),
            !.summary = Get(cv_data, "summary", None),
            !.last_updated = t]

\* lines 207-215: the fields the email channel sets on an existing row
EmailMerge(c, cv_filename, cv_data, t) ==
  [c EXCEPT !.cv_filename = cv_filename,
            !.cv_text = Get(cv_data, "text", None),
            !.skills = Get(cv_data, "skills", <<>>),
            !.experience_years = Get(cv_data, "experience_years", None),
            !.education = Get(cv_data, "education", <<>>),
            !.work_experience = Get(cv_data, "work_experience", <<>>),
            !.summary = Get(cv_data, "summary", None),
            !.last_updated = t]

\* lines 218-232
EmailNewCandidate(r, t) ==
  Candidate(Get(r.cv_data, "name", r.sender_name), r.sender_email_clean,
            Get(r.cv_data, "phone", None), Get(r.cv_data, "location", None),
            r.cv_filename, r.cv_data, "email", r.msg.id, t)

\* an UPDATE that also puts the row back into the review queue
UpsertRequeues(i, merged, created) ==
  /\ IF runs[i].candidate # 0
     THEN /\ candidates' = Put(candidates, runs[i].candidate,
                               [merged EXCEPT !.status = "new"])
          /\ now' = now + 1
          /\ runs' = [runs EXCEPT ![i] = [@ EXCEPT !.pc = "confirm",
                                                   !.mutated = "updated",
                                                   !.status_found = merged.status]]
     ELSE IF InsertAllowed(created)
     THEN /\ candidates' = Put(candidates, i, created)
          /\ now' = now + 1
          /\ runs' = [runs EXCEPT ![i] = [@ EXCEPT !.pc = "confirm",
                                                   !.mutated = "created",
                                                   !.candidate = i]]
     ELSE /\ runs' = [runs EXCEPT ![i] = [@ EXCEPT !.pc = "except",
                                                   !.exc = "IntegrityError",
                                                   !.session_failed = TRUE]]
          /\ UNCHANGED <<candidates, now>>
  /\ UNCHANGED <<email_log, whatsapp_log, uploads, filter_eu_only, poller, webhook, parser, started>>

\* what both channels do with the row: UPDATE the row loaded by the lookup,
\* or INSERT (flush) a new one, then commit.  A rejected INSERT raises and
\* leaves the session unusable until a rollback.
Upsert(i, merged, created) ==
  /\ IF runs[i].candidate # 0
     THEN /\ candidates' = Put(candidates, runs[i].candidate, merged)
          /\ now' = now + 1
          /\ runs' = [runs EXCEPT ![i] = [@ EXCEPT !.pc = "confirm",
                                                   !.mutated = "updated",
                                                   !.status_found =
                                                     candidates[runs[i].candidate].status]]
     ELSE IF InsertAllowed(created)
     THEN /\ candidates' = Put(candidates, i, created)
          /\ now' = now + 1
          /\ runs' = [runs EXCEPT ![i] = [@ EXCEPT !.pc = "confirm",
                                                   !.mutated = "created",
                                                   !.candidate = i]]
     ELSE /\ runs' = [runs EXCEPT ![i] = [@ EXCEPT !.pc = "except",
                                                   !.exc = "IntegrityError",
                                                   !.session_failed = TRUE]]
          /\ UNCHANGED <<candidates, now>>
  /\ UNCHANGED <<email_log, whatsapp_log, uploads, filter_eu_only, poller, webhook, parser, started>>

\* lines 206-236
EmailUpsert(i) ==
  /\ At(i, "email", "upsert")
  /\ Upsert(i,
       IF runs[i].candidate # 0
       THEN EmailMerge(candidates[runs[i].candidate], runs[i].cv_filename,
                       runs[i].cv_data, now)
       ELSE <<>>,
       EmailNewCandidate(runs[i], now))

\* a confirmation that is sent only for a CV that was attached
EmailConfirmCvOnly(i) ==
  /\ At(i, "email", "confirm")
  /\ IF runs[i].candidate # 0 /\ runs[i].parsed
     THEN Local(i, Sent(Goto(runs[i], "log_success"), "confirmation"))
     ELSE Local(i, Goto(runs[i], "log_success"))

\* lines 238-251
EmailConfirm(i) ==
  /\ At(i, "email", "confirm")
  /\ IF runs[i].candidate # 0
     THEN Local(i, Sent(Goto(runs[i], "log_success"), "confirmation"))
     ELSE Local(i, Goto(runs[i], "log_success"))

\* lines 253-263
EmailLogSuccess(i) ==
  /\ At(i, "email", "log_success")
  /\ EmailLogWrite(i, runs[i].sender_email_clean, runs[i].candidate, "success", None)

\* lines 265-276: the entry is committed by the session that failed, which
\* refuses the commit after a failed flush; the error then leaves process_email
EmailExcept(i) ==
  /\ At(i, "email", "except")
  /\ IF runs[i].session_failed
     THEN Local(i, [runs[i] EXCEPT !.pc = "raised", !.exc = "PendingRollbackError"])
     ELSE EmailLogWrite(i, runs[i].msg.from, 0, "error", runs[i].exc)

-----------------------------------------------------------------------------
(* WhatsAppBot.process_whatsapp_message *)

\* the INSERT of one WhatsAppLog row and its commit
ChatLogWrite(i, candidate_id, status, error_message) ==
  /\ whatsapp_log' = whatsapp_log \cup
       {WhatsAppLog(i, runs[i].msg.from, runs[i].msg.id, candidate_id, status,
                    error_message)}
  /\ runs' = [runs EXCEPT ![i] = [@ EXCEPT !.pc = "done", !.wrote = Append(@, status)]]
  /\ UNCHANGED <<candidates, email_log, uploads, now, filter_eu_only, poller, webhook, parser, started>>

\* lines 122-130
ChatLogFiltered(i) ==
  /\ At(i, "whatsapp", "log_filtered")
  /\ ChatLogWrite(i, 0, "filtered_non_eu", None)

\* a handler that tells the applicant when the file could not be written
ChatDocumentApologizes(i) ==
  /\ At(i, "whatsapp", "dispatch")
  /\ runs[i].msg.type = "document"
  /\ IsCvFilename(runs[i].msg.filename)
  /\ \E outcome \in {"download_failed", "write_failed", "saved"} :
       CASE outcome = "download_failed" ->
              /\ runs' = [runs EXCEPT ![i] =
                   Sent(Goto(@, "log_download_failed"), "download_failed")]
              /\ UNCHANGED uploads
         [] outcome = "write_failed" ->
              /\ runs' = [runs EXCEPT ![i] = Sent([@ EXCEPT !.pc = "except",
                                                            !.exc = "OSError"],
                                                 "download_failed")]
              /\ UNCHANGED uploads
         [] outcome = "saved" ->
              /\ uploads' = uploads \cup {i}
              /\ runs' = [runs EXCEPT ![i] =
                   Parsed([@ EXCEPT !.cv_filename = i],
                          parse_cv_text(
                            Attachment(runs[i].msg.filename, runs[i].msg.content)),
                          "lookup")]
  /\ UNCHANGED <<candidates, email_log, whatsapp_log, now, filter_eu_only, poller, webhook, parser, started>>

\* lines 133-154 and 220-223: a CV document is downloaded, written to the
\* upload folder and parsed; the download and the file write may fail
ChatDocument(i) ==
  /\ At(i, "whatsapp", "dispatch")
  /\ runs[i].msg.type = "document"
  /\ IsCvFilename(runs[i].msg.filename)
  /\ \E outcome \in {"download_failed", "write_failed", "saved"} :
       CASE outcome = "download_failed" ->
              /\ runs' = [runs EXCEPT ![i] =
                   Sent(Goto(@, "log_download_failed"), "download_failed")]
              /\ UNCHANGED uploads
         [] outcome = "write_failed" ->
              /\ runs' = [runs EXCEPT ![i] = [@ EXCEPT !.pc = "except",
                                                       !.exc = "OSError"]]
              /\ UNCHANGED uploads
         [] outcome = "saved" ->
              /\ uploads' = uploads \cup {i}
              /\ runs' = [runs EXCEPT ![i] =
                   Parsed([@ EXCEPT !.cv_filename = i],
                          parse_cv_text(
                            Attachment(runs[i].msg.filename, runs[i].msg.content)),
                          "lookup")]
  /\ UNCHANGED <<candidates, email_log, whatsapp_log, now, filter_eu_only, poller, webhook, parser, started>>

\* lines 233-236: a document that is not a CV file gets a reply and no entry
ChatOtherDocument(i) ==
  /\ At(i, "whatsapp", "dispatch")
  /\ runs[i].msg.type = "document"
  /\ ~IsCvFilename(runs[i].msg.filename)
  /\ Local(i, Sent(Goto(runs[i], "done"), "send_cv_format"))

\* a text branch that does not know the keyword 'job'
ChatTextTwoKeywords(i) ==
  /\ At(i, "whatsapp", "dispatch")
  /\ runs[i].msg.type = "text"
  /\ IF \E kw \in {"cv", "resume"} : LowerContains(runs[i].msg.text, kw)
     THEN Local(i, Sent(Goto(runs[i], "log_text"), "welcome"))
     ELSE Local(i, Goto(runs[i], "log_text"))

\* lines 238-256
ChatText(i) ==
  /\ At(i, "whatsapp", "dispatch")
  /\ runs[i].msg.type = "text"
  /\ IF \E kw \in {"cv", "resume", "job"} : LowerContains(runs[i].msg.text, kw)
     THEN Local(i, Sent(Goto(runs[i], "log_text"), "welcome"))
     ELSE Local(i, Goto(runs[i], "log_text"))

\* lines 133, 238: neither branch is taken for any other message type
ChatOtherType(i) ==
  /\ At(i, "whatsapp", "dispatch")
  /\ runs[i].msg.type \notin {"document", "text"}
  /\ Local(i, Goto(runs[i], "done"))

\* lines 258-265
ChatLogText(i) ==
  /\ At(i, "whatsapp", "log_text")
  /\ ChatLogWrite(i, 0, "text_received", None)

\* lines 225-231
ChatLogDownloadFailed(i) ==
  /\ At(i, "whatsapp", "log_download_failed")
  /\ ChatLogWrite(i, 0, "download_failed", None)

\* lines 156-161: the lookup is by the parsed email only
ChatLookup(i) ==
  /\ At(i, "whatsapp", "lookup")
  /\ LET email == Get(runs[i].cv_data, "email", None)
         existing_candidate == IF ~Falsy(email) THEN CandidateByEmail(email) ELSE 0
     IN  Local(i, [runs[i] EXCEPT !.pc = "upsert",
                                  !.existing_candidate = existing_candidate,
                                  !.candidate = existing_candidate])

\* a merge that leaves the skills of the row alone
ChatMergeKeepsSkills(c, from_phone, cv_filename, cv_data, t) ==
  [c EXCEPT !.phone = from_phone,
            !.cv_filename = cv_filename,
            !.cv_text = Get(cv_data, "text", None),
            !.experience_years = Get(cv_data, "experience_years", None),
            !.education = Get(cv_data, "education", <<>>),
            !.work_experience = Get(cv_data, "work_experience", <<>>),
            !.summary = Get(cv_data, "summary", None),
            !.last_updated = t]

\* lines 165-174: the fields the chat channel sets on an existing row
ChatMerge(c, from_phone, cv_filename, cv_data, t) ==
  [c EXCEPT !.phone = from_phone,
            !.cv_filename = cv_filename,
            !.cv_text = Get(cv_data, "text", None),
            !.skills = Get(cv_data, "skills", <<>>),
            !.experience_years = Get(cv_data, "experience_years", None),
            !.education = Get(cv_data, "education", <<>>),
            !.work_experience = Get(cv_data, "work_experience", <<>>),
            !.summary = Get(cv_data, "summary", None),
            !.last_updated = t]

\* f"whatsapp_{from_phone}@temp.com"
SyntheticEmail(from_phone) == "whatsapp_" \o from_phone \o "@temp.com"

\* lines 177-191
ChatNewCandidate(r, t) ==
  LET email == Get(r.cv_data, "email", None)
  IN  Candidate(Get(r.cv_data, "name", "WhatsApp User " \o r.msg.from),
                IF ~Falsy(email) THEN email ELSE SyntheticEmail(r.msg.from),
                r.msg.from, Get(r.cv_data, "location", None),
                r.cv_filename, r.cv_data, "whatsapp", r.msg.from, t)

\* lines 163-195
ChatUpsert(i) ==
  /\ At(i, "whatsapp", "upsert")
  /\ Upsert(i,
       IF runs[i].candidate # 0
       THEN ChatMerge(candidates[runs[i].candidate], runs[i].msg.from,
                      runs[i].cv_filename, runs[i].cv_data, now)
       ELSE <<>>,
       ChatNewCandidate(runs[i], now))

\* lines 197-206
ChatConfirm(i) ==
  /\ At(i, "whatsapp", "confirm")
  /\ Local(i, Sent(Goto(runs[i], "log_success"), "confirmation"))

\* a success entry that does not name the candidate
ChatLogSuccessAnonymous(i) ==
  /\ At(i, "whatsapp", "log_success")
  /\ ChatLogWrite(i, 0, "success", None)

\* lines 208-218
ChatLogSuccess(i) ==
  /\ At(i, "whatsapp", "log_success")
  /\ ChatLogWrite(i, runs[i].candidate, "success", None)

\* lines 267-278: as in the email channel, the commit of the error entry is
\* refused by a session whose flush failed, and the error leaves the handler
ChatExcept(i) ==
  /\ At(i, "whatsapp", "except")
  /\ IF runs[i].session_failed
     THEN Local(i, [runs[i] EXCEPT !.pc = "raised", !.exc = "PendingRollbackError"])
     ELSE ChatLogWrite(i, 0, "error", runs[i].exc)

-----------------------------------------------------------------------------
(* Specifications *)

Next ==
  \/ \E i \in RunIds, m \in Emails : StartEmail(i, m)
  \/ \E i \in RunIds, m \in ChatMessages : StartWebhook(i, m)
  \/ \E i \in RunIds : EmailLookup(i)
  \/ \E i \in RunIds : EmailLogFiltered(i)
  \/ \E i \in RunIds : EmailNoAttachment(i)
  \/ \E i \in RunIds : EmailAttachment(i)
  \/ \E i \in RunIds : EmailLogCvRequested(i)
  \/ \E i \in RunIds : EmailUpsert(i)
  \/ \E i \in RunIds : EmailConfirm(i)
  \/ \E i \in RunIds : EmailLogSuccess(i)
  \/ \E i \in RunIds : EmailExcept(i)
  \/ \E i \in RunIds : ChatLogFiltered(i)
  \/ \E i \in RunIds : ChatDocument(i)
  \/ \E i \in RunIds : ChatOtherDocument(i)
  \/ \E i \in RunIds : ChatText(i)
  \/ \E i \in RunIds : ChatOtherType(i)
  \/ \E i \in RunIds : ChatLogText(i)
  \/ \E i \in RunIds : ChatLogDownloadFailed(i)
  \/ \E i \in RunIds : ChatLookup(i)
  \/ \E i \in RunIds : ChatUpsert(i)
  \/ \E i \in RunIds : ChatConfirm(i)
  \/ \E i \in RunIds : ChatLogSuccess(i)
  \/ \E i \in RunIds : ChatExcept(i)

Spec == Init /\ [][Next]_vars

\* the process is killed while a handler is between two steps
Crash(i) ==
  /\ Active(i)
  /\ Local(i, Goto(runs[i], "crashed"))

NextCrash == Next \/ \E i \in RunIds : Crash(i)

SpecCrash == Init /\ [][NextCrash]_vars

\* the emails and chat messages of senders no reply can be sent to, and one
\* message of each kind of a sender the replies reach
SendEmails ==
  {m \in InboxMessages :
     \/ extract_email_info(m.from)[2] \in Unreachable
     \/ m.from = "jane@x.com" /\ m.id = "Application"}

SendChats ==
  {m \in PayloadMessages :
     \/ m.from \in Unreachable
     \/ m.id \in {"wamid.2", "wamid.4", "wamid.5", "wamid.6"}}

\* the handlers at work on these messages
NextSend ==
  \/ \E i \in RunIds, m \in SendEmails : StartEmail(i, m)
  \/ \E i \in RunIds, m \in SendChats : StartWebhook(i, m)
  \/ \E i \in RunIds : EmailLookup(i)
  \/ \E i \in RunIds : EmailLogFiltered(i)
  \/ \E i \in RunIds : EmailNoAttachment(i)
  \/ \E i \in RunIds : EmailAttachment(i)
  \/ \E i \in RunIds : EmailLogCvRequested(i)
  \/ \E i \in RunIds : EmailUpsert(i)
  \/ \E i \in RunIds : EmailConfirm(i)
  \/ \E i \in RunIds : EmailLogSuccess(i)
  \/ \E i \in RunIds : EmailExcept(i)
  \/ \E i \in RunIds : ChatLogFiltered(i)
  \/ \E i \in RunIds : ChatDocument(i)
  \/ \E i \in RunIds : ChatOtherDocument(i)
  \/ \E i \in RunIds : ChatText(i)
  \/ \E i \in RunIds : ChatLogText(i)
  \/ \E i \in RunIds : ChatLogDownloadFailed(i)
  \/ \E i \in RunIds : ChatLookup(i)
  \/ \E i \in RunIds : ChatUpsert(i)
  \/ \E i \in RunIds : ChatConfirm(i)
  \/ \E i \in RunIds : ChatLogSuccess(i)
  \/ \E i \in RunIds : ChatExcept(i)

SpecSend == Init /\ [][NextSend]_vars

-----------------------------------------------------------------------------
(* EmailBot.start_monitoring and EmailBot.check_emails: one worker polls   *)
(* the mailbox, hands each unseen message to process_email and sleeps.     *)

MaxCycles == 2

\* the mailboxes of the model: up to MaxMsgs messages, in mailbox order
Inboxes ==
  UNION {[1..n -> Emails] : n \in 1..MaxMsgs}

InitPoller ==
  /\ InitStore
  /\ webhook = IdleWebhook
  /\ parser = IdleParser
  /\ \E b \in Inboxes, configured \in BOOLEAN :
       poller = [IdlePoller EXCEPT !.pc = "check", !.inbox = b, !.cycle = 1,
                                   !.credentials = configured]

\* mail.search(None, 'UNSEEN'): the unseen messages, in mailbox order
Unseen(p) ==
  LET U == {k \in 1..Len(p.inbox) : k \notin p.seen}
      Ordered[n \in 0..Len(p.inbox)] ==
        IF n = 0 THEN <<>>
        ELSE IF n \in U THEN Append(Ordered[n - 1], n) ELSE Ordered[n - 1]
  IN  Ordered[Len(p.inbox)]

\* the poller moves on; the store and the handlers stay as they are
PollerStep(p) ==
  /\ poller' = p
  /\ UNCHANGED <<candidates, email_log, whatsapp_log, uploads, now,
                 filter_eu_only, runs, started, webhook, parser>>

\* start_monitoring lines 332-333 and 337-339: check_emails returned, or
\* raised, and the loop sleeps
Sleep(p, outcome, seconds) ==
  [p EXCEPT !.pc = "sleep", !.outcome = outcome, !.slept = seconds]

\* lines 280-282 and 332-333: without credentials check_emails logs a
\* warning and returns, and start_monitoring sleeps as after any cycle
PollerNotConfigured ==
  /\ poller.pc = "check"
  /\ ~poller.credentials
  /\ PollerStep(Sleep(poller, "not_configured", 60))

\* a check_emails that goes on to the mailbox without a connection
PollerConnectProceeds ==
  /\ poller.pc = "check"
  /\ poller.credentials
  /\ \E connected \in BOOLEAN :
       IF connected
       THEN PollerStep([poller EXCEPT !.pc = "search"])
       ELSE PollerStep([poller EXCEPT !.pc = "search", !.outcome = "no_connection"])

\* lines 284-286 with connect_imap (31-39): a failed connection is logged
\* there, check_emails returns and start_monitoring sleeps as after any
\* cycle (line 333)
PollerConnect ==
  /\ poller.pc = "check"
  /\ poller.credentials
  /\ \E connected \in BOOLEAN :
       IF connected
       THEN PollerStep([poller EXCEPT !.pc = "search"])
       ELSE PollerStep(Sleep(poller, "no_connection", 60))

\* lines 288-297 and 321-322: select and search; an exception of either is
\* caught by the outer handler, a result without messages skips the loop
PollerSearch ==
  /\ poller.pc = "search"
  /\ \E result \in {"OK", "NO", "raises"} :
       IF result = "OK" /\ Unseen(poller) # <<>>
       THEN PollerStep([poller EXCEPT !.pc = "loop",
                                      !.email_ids = Unseen(poller),
                                      !.pos = 1])
       ELSE PollerStep([poller EXCEPT
              !.pc = "logout",
              !.outcome = IF result = "raises" THEN "search_error" ELSE "ok"])

\* line 299 and 317-319: the next email_id of the loop, or its end
Continue(p) ==
  IF p.pos < Len(p.email_ids)
  THEN [p EXCEPT !.pc = "loop", !.pos = @ + 1]
  ELSE [p EXCEPT !.pc = "logout", !.outcome = "ok"]

\* lines 300-312: the message is fetched; a result other than OK skips it,
\* an exception is caught at line 317.  The inbox is selected read-write
\* (line 290) and the fetch item is RFC822, not BODY.PEEK[]: the server
\* sets the \Seen flag of a message it delivers (RFC 3501, 6.4.5)
PollerFetch ==
  /\ poller.pc = "loop"
  /\ LET p == [poller EXCEPT
                 !.attempted = Append(@, poller.email_ids[poller.pos])]
     IN  \E result \in {"OK", "NO", "raises"} :
           IF result = "OK"
           THEN /\ started < MaxMsgs
                /\ PollerStep([p EXCEPT
                       !.pc = "call", !.run = started + 1,
                       !.seen = @ \cup {poller.email_ids[poller.pos]}])
           ELSE PollerStep(Continue(p))

\* line 312: process_email(msg, sender, subject)
PollerProcess ==
  /\ poller.pc = "call"
  /\ \E i \in RunIds :
       /\ i = poller.run
       /\ runs[i].pc = "idle"
       /\ StartEmail(i, poller.inbox[poller.email_ids[poller.pos]])

\* a loop body without the handler of lines 317-319: the exception of a
\* message reaches the outer handler of line 321 and ends the loop
PollerAfterProcessAborts ==
  /\ poller.pc = "call"
  /\ runs[poller.run].pc \in {"done", "raised"}
  /\ IF runs[poller.run].pc = "raised"
     THEN PollerStep([poller EXCEPT !.pc = "logout", !.outcome = "search_error"])
     ELSE \E stored \in BOOLEAN :
            IF stored
            THEN PollerStep(Continue(
                   [poller EXCEPT !.seen = @ \cup {poller.email_ids[poller.pos]}]))
            ELSE PollerStep([poller EXCEPT !.pc = "logout", !.outcome = "search_error"])

\* lines 312-319: process_email returned and the message is marked seen
\* (the store may fail), or process_email raised; either exception is
\* caught at line 317 and the loop goes on
PollerAfterProcess ==
  /\ poller.pc = "call"
  /\ runs[poller.run].pc \in {"done", "raised"}
  /\ IF runs[poller.run].pc = "raised"
     THEN PollerStep(Continue(poller))
     ELSE \E stored \in BOOLEAN :
            IF stored
            THEN PollerStep(Continue(
                   [poller EXCEPT !.seen = @ \cup {poller.email_ids[poller.pos]}]))
            ELSE PollerStep(Continue(poller))

\* a start_monitoring without its except clause: a raising logout ends it
PollerLogoutUncaught ==
  /\ poller.pc = "logout"
  /\ \E closed \in BOOLEAN :
       IF closed
       THEN PollerStep(Sleep(poller, poller.outcome, 60))
       ELSE PollerStep([poller EXCEPT !.pc = "exited",
                                      !.outcome = "logout_error"])

\* lines 323-324 and 332-339: the finally clause logs out; when the logout
\* raises, the exception reaches start_monitoring, which sleeps 300 seconds
PollerLogout ==
  /\ poller.pc = "logout"
  /\ \E closed \in BOOLEAN :
       IF closed
       THEN PollerStep(Sleep(poller, poller.outcome, 60))
       ELSE PollerStep(Sleep(poller, "logout_error", 300))

\* line 330: the next cycle
PollerWake ==
  /\ poller.pc = "sleep"
  /\ poller.cycle < MaxCycles
  /\ PollerStep([poller EXCEPT !.pc = "check", !.cycle = @ + 1,
                               !.last = poller.outcome,
                               !.email_ids = <<>>, !.pos = 0, !.run = 0,
                               !.attempted = <<>>, !.outcome = ""])

NextPoller ==
  \/ PollerNotConfigured
  \/ PollerConnect
  \/ PollerSearch
  \/ PollerFetch
  \/ PollerProcess
  \/ PollerAfterProcess
  \/ PollerLogout
  \/ PollerWake
  \/ \E i \in RunIds : EmailLookup(i)
  \/ \E i \in RunIds : EmailLogFiltered(i)
  \/ \E i \in RunIds : EmailNoAttachment(i)
  \/ \E i \in RunIds : EmailAttachment(i)
  \/ \E i \in RunIds : EmailLogCvRequested(i)
  \/ \E i \in RunIds : EmailUpsert(i)
  \/ \E i \in RunIds : EmailConfirm(i)
  \/ \E i \in RunIds : EmailLogSuccess(i)
  \/ \E i \in RunIds : EmailExcept(i)

SpecPoller == InitPoller /\ [][NextPoller]_vars

\* the mailboxes of the fair specification: the messages whose From header
\* is a bare address
LoopInboxes ==
  UNION {[1..n -> {e \in Emails : e.from = "jane@x.com"}] : n \in 1..MaxMsgs}

InitPollerLoop ==
  /\ InitStore
  /\ webhook = IdleWebhook
  /\ parser = IdleParser
  /\ \E b \in LoopInboxes, configured \in BOOLEAN :
       poller = [IdlePoller EXCEPT !.pc = "check", !.inbox = b, !.cycle = 1,
                                   !.credentials = configured]

\* start_monitoring is one thread that runs its loop without end: every
\* call it makes returns or raises, and time.sleep returns
SpecPollerFair == InitPollerLoop /\ [][NextPoller]_vars /\ WF_vars(NextPoller)

-----------------------------------------------------------------------------
(* WhatsAppBot.handle_webhook: one call with one payload; its messages are *)
(* handed to process_whatsapp_message one after the other.                 *)

\* the payloads of the model: the messages of the changes whose field is
\* 'messages', in payload order
Payloads ==
  UNION {[1..n -> PayloadMessages] : n \in 1..MaxMsgs}

\* data is a JSON object with messages, or something data.get fails on
InitWebhook ==
  /\ InitStore
  /\ poller = IdlePoller
  /\ parser = IdleParser
  /\ \/ \E b \in Payloads :
          webhook = [IdleWebhook EXCEPT !.pc = "parse", !.data = "object",
                                        !.messages = b]
     \/ webhook = [IdleWebhook EXCEPT !.pc = "parse", !.data = "malformed"]

\* handle_webhook moves on; the store and the handlers stay as they are
WebhookStep(w) ==
  /\ webhook' = w
  /\ UNCHANGED <<candidates, email_log, whatsapp_log, uploads, now,
                 filter_eu_only, runs, started, poller, parser>>

\* a handle_webhook without the handler of lines 294-295
Uncaught(w, e) == [w EXCEPT !.pc = "propagated", !.fault = e]

\* lines 294-295: the exception is logged and handle_webhook returns
Caught(w, e) == [w EXCEPT !.pc = "returned", !.fault = e]

\* line 291: the next message of the payload, or the end of the loops
NextMessage(w) ==
  IF w.pos < Len(w.messages)
  THEN [w EXCEPT !.pos = @ + 1]
  ELSE [w EXCEPT !.pc = "returned"]

\* lines 283-289: the entries and changes of the payload are read
WebhookParse ==
  /\ webhook.pc = "parse"
  /\ IF webhook.data = "malformed"
     THEN WebhookStep(Caught(webhook, "AttributeError"))
     ELSE WebhookStep([webhook EXCEPT !.pc = "loop", !.pos = 1])

\* line 292: process_whatsapp_message(message); the invocation of the
\* message at position pos of the one payload has number pos
WebhookProcess ==
  /\ webhook.pc = "loop"
  /\ \E i \in RunIds :
       /\ i = webhook.pos
       /\ runs[i].pc = "idle"
       /\ StartWebhook(i, webhook.messages[i])

\* lines 291-295: process_whatsapp_message returned and the loop goes on,
\* or it raised: the try block around the loops is left
WebhookAfterProcess ==
  /\ webhook.pc = "loop"
  /\ runs[webhook.pos].pc \in {"done", "raised"}
  /\ IF runs[webhook.pos].pc = "raised"
     THEN WebhookStep(Caught(webhook, runs[webhook.pos].exc))
     ELSE WebhookStep(NextMessage(webhook))

NextWebhook ==
  \/ WebhookParse
  \/ WebhookProcess
  \/ WebhookAfterProcess
  \/ \E i \in RunIds : ChatLogFiltered(i)
  \/ \E i \in RunIds : ChatDocument(i)
  \/ \E i \in RunIds : ChatOtherDocument(i)
  \/ \E i \in RunIds : ChatText(i)
  \/ \E i \in RunIds : ChatOtherType(i)
  \/ \E i \in RunIds : ChatLogText(i)
  \/ \E i \in RunIds : ChatLogDownloadFailed(i)
  \/ \E i \in RunIds : ChatLookup(i)
  \/ \E i \in RunIds : ChatUpsert(i)
  \/ \E i \in RunIds : ChatConfirm(i)
  \/ \E i \in RunIds : ChatLogSuccess(i)
  \/ \E i \in RunIds : ChatExcept(i)

SpecWebhook == InitWebhook /\ [][NextWebhook]_vars

-----------------------------------------------------------------------------
(* One CV on both channels: the emails and the chat documents that carry   *)
(* the CV of Jane Doe, handled by process_email and by                     *)
(* process_whatsapp_message in any order.                                  *)

\* the messages with a CV whose parsed profile has the address jane@x.com
JaneCvEmails ==
  {m \in InboxMessages :
     /\ m.attachments # <<>>
     /\ m.attachments[1].content \in {CvJane, CvJaneUpdate}}

JaneCvChats == {m \in ChatMessages : m.content \in {CvJane, CvJaneUpdate}}

\* the steps these messages can take
NextReconcile ==
  \/ \E i \in RunIds, m \in JaneCvEmails : StartEmail(i, m)
  \/ \E i \in RunIds, m \in JaneCvChats : StartWebhook(i, m)
  \/ \E i \in RunIds : EmailLookup(i)
  \/ \E i \in RunIds : EmailAttachment(i)
  \/ \E i \in RunIds : EmailUpsert(i)
  \/ \E i \in RunIds : EmailConfirm(i)
  \/ \E i \in RunIds : EmailLogSuccess(i)
  \/ \E i \in RunIds : EmailExcept(i)
  \/ \E i \in RunIds : ChatDocument(i)
  \/ \E i \in RunIds : ChatLogDownloadFailed(i)
  \/ \E i \in RunIds : ChatLookup(i)
  \/ \E i \in RunIds : ChatUpsert(i)
  \/ \E i \in RunIds : ChatConfirm(i)
  \/ \E i \in RunIds : ChatLogSuccess(i)
  \/ \E i \in RunIds : ChatExcept(i)

SpecReconcile == Init /\ [][NextReconcile]_vars

-----------------------------------------------------------------------------
(* The reviewer (routes.py) at work while CVs of one person come in.       *)

\* models.py 11-16
CandidateStatus == {"new", "reviewed", "shortlisted", "rejected", "hired"}

\* the values of the form field 'status' a reviewer posts
StatusForms == {"new", "reviewed", "hired", "archived"}

\* the status changes a reviewer makes while the clock is followed
MaxReviews == 1

\* routes.py 326-340: a value of the enum is stored, another one is refused;
\* the UPDATE of a row stamps last_updated (models.py 84)
update_candidate_status(candidate_id, new_status) ==
  /\ candidate_id \in CandidateIds
  /\ now <= MaxMsgs + MaxReviews
  /\ IF new_status \in CandidateStatus /\ new_status # candidates[candidate_id].status
     THEN /\ candidates' = Put(candidates, candidate_id,
                               [candidates[candidate_id] EXCEPT !.status = new_status,
                                                                !.last_updated = now])
          /\ now' = now + 1
     ELSE UNCHANGED <<candidates, now>>
  /\ UNCHANGED <<email_log, whatsapp_log, uploads, filter_eu_only, runs, started, poller, webhook, parser>>

NextReview ==
  \/ NextReconcile
  \/ \E c \in RunIds, s \in StatusForms : update_candidate_status(c, s)

SpecReview == Init /\ [][NextReview]_vars

-----------------------------------------------------------------------------
(* cv_parser.parse_cv_file: one call on one path, step by step.            *)

\* a CV text the regular expressions find a name, an address and a phone in
CvText == << <<"Jane", "Doe">>, <<"jane@x.com">>, <<"+1-555-0100">> >>

\* the answers of the completion service to CvText
Answers ==
  {\* empty strings for the fields the service did not find, and a JSON true
   AiObject([name |-> "", email |-> "", phone |-> None,
             experience_years |-> JBool(TRUE)]),
   \* no name; another address and another phone than the text shows
   AiObject([name |-> None, email |-> "j.doe@x.com", phone |-> "555-0100",
             experience_years |-> JNull]),
   \* name and address, no phone
   AiObject([name |-> "J. Doe", email |-> "j.doe@x.com", phone |-> None,
             experience_years |-> JList(<<>>)]),
   AiObject([name |-> "J. Doe", email |-> "j.doe@x.com",
             experience_years |-> JBool(FALSE)]),
   \* a negative number of years
   AiObject([name |-> "J. Doe", email |-> "j.doe@x.com",
             experience_years |-> JInt(-3)]),
   \* no experience_years key
   AiObject([name |-> "J. Doe", email |-> "j.doe@x.com"]),
   \* an empty message content: json.loads('{}')
   AiObject(<<>>),
   [kind |-> "network_error", result |-> <<>>],
   AiError,
   [kind |-> "malformed", result |-> <<>>],
   [kind |-> "non_object", result |-> <<>>]}

\* the documents: the CVs of the channels, CvText with each answer, and a
\* text of blank lines only
Documents ==
  {CvJane, CvJaneUpdate, CvSam, CvBlank}
    \cup {[text |-> CvText, ai |-> a] : a \in Answers}
    \cup {[text |-> << <<>>, <<>> >>, ai |-> AiError]}

\* the paths parse_cv_file is called on
Files ==
  {[filename |-> f, state |-> st, content |-> c] :
     f \in {"cv.pdf", "cv.docx", "cv.txt", "CV.DOC", "pic.png"},
     st \in FileStates, c \in Documents}

InitParser ==
  /\ InitStore
  /\ poller = IdlePoller
  /\ webhook = IdleWebhook
  /\ \E f \in Files : parser = [IdleParser EXCEPT !.pc = "start", !.file = f]

ParserStep(p) ==
  /\ parser' = p
  /\ UNCHANGED <<candidates, email_log, whatsapp_log, uploads, now,
                 filter_eu_only, runs, started, poller, webhook>>

\* the callee was called
Call(p, callee) == [p EXCEPT !.calls = Append(@, callee)]

\* an exception of a callee leaves parse_cv_file
Left(p, outcome) == [p EXCEPT !.pc = "raised", !.raised = outcome.exc]

\* line 203
ParserExtract ==
  /\ parser.pc = "start"
  /\ LET outcome == extract_text_from_file(parser.file)
         p == Call(parser, "extract_text_from_file")
     IN  IF outcome.kind = "raise"
         THEN ParserStep(Left(p, outcome))
         ELSE ParserStep([p EXCEPT !.pc = "extracted", !.cv_text = outcome.value])

\* lines 220-222: the AI parser is called and the text attached
AiCalled(p) ==
  LET outcome == parse_cv_with_ai(p.cv_text, p.file.content.ai)
      q == Call(p, "parse_cv_with_ai")
  IN  IF outcome.kind = "raise"
      THEN Left(q, outcome)
      ELSE [q EXCEPT !.pc = "parsed", !.ai_data = outcome.value,
                     !.cv_data = Put(outcome.value, "text", p.cv_text)]

\* a parse_cv_file without the test of line 205
ParserNoTextCallsAi ==
  /\ parser.pc = "extracted"
  /\ parser.cv_text = <<>>
  /\ ParserStep(AiCalled(parser))

\* lines 205-218: no text, the all-null profile is returned at once
ParserNoText ==
  /\ parser.pc = "extracted"
  /\ parser.cv_text = <<>>
  /\ ParserStep([parser EXCEPT !.pc = "returned", !.cv_data = no_text_profile])

\* lines 220-222
ParserAi ==
  /\ parser.pc = "extracted"
  /\ parser.cv_text # <<>>
  /\ ParserStep(AiCalled(parser))

\* lines 225-235: email or name is missing and the regular expressions run
ParserFallback ==
  /\ parser.pc = "parsed"
  /\ NeedsFallback(parser.cv_data)
  /\ LET basic_info == extract_basic_info_regex(parser.cv_text)
     IN  ParserStep([Call(parser, "extract_basic_info_regex") EXCEPT
                       !.pc = "returned",
                       !.basic_info = basic_info,
                       !.cv_data = Fallback(parser.cv_data, basic_info)])

\* lines 225 and 239: both are there, the profile is returned as it is
ParserReturn ==
  /\ parser.pc = "parsed"
  /\ ~NeedsFallback(parser.cv_data)
  /\ ParserStep([parser EXCEPT !.pc = "returned"])

NextParser ==
  \/ ParserExtract
  \/ ParserNoText
  \/ ParserAi
  \/ ParserFallback
  \/ ParserReturn

SpecParser == InitParser /\ [][NextParser]_vars

-----------------------------------------------------------------------------
(* Properties *)

Ended(i) == runs[i].pc \in {"done", "raised"}

IsChat(i) == runs[i].chan = "whatsapp"

IsEmail(i) == runs[i].chan = "email"

SameMessage(i, j) ==
  /\ runs[i].chan = runs[j].chan
  /\ runs[i].msg.from = runs[j].msg.from
  /\ runs[i].msg.id = runs[j].msg.id

\* invocation i had stopped when invocation j started
Before(i, j) == i < j /\ i \notin runs[j].peers

\* the two invocations overlapped in time
Overlapped(i, j) == i # j /\ i \in runs[j].peers

EntriesOf(i) ==
  IF IsEmail(i) THEN EmailEntries(runs[i].msg) ELSE ChatEntries(runs[i].msg)

\* the ledger rows written by invocation i
WrittenBy(i) ==
  IF IsEmail(i) THEN {e \in email_log : e.id = i}
  ELSE {e \in whatsapp_log : e.id = i}

\* the email under which the reconciler of invocation i files the profile
IdentityOf(i) ==
  IF IsEmail(i) THEN runs[i].sender_email_clean
  ELSE ChatNewCandidate(runs[i], now).email

\* invocation i takes the step that merges its profile into an existing row
MergeStep(i) ==
  /\ runs[i].pc = "upsert"
  /\ runs[i].candidate # 0
  /\ runs'[i].pc = "confirm"

\* C1: a chat message handled twice in sequence, whatever its type, leaves
\* exactly one WhatsAppLog entry for (from, id); the second run writes
\* nothing, changes no candidate and sends no reply.
ChatIdempotent ==
  \A i \in RunIds, j \in RunIds :
    (IsChat(i) /\ IsChat(j) /\ SameMessage(i, j) /\ Before(i, j)
       /\ Ended(i) /\ Ended(j))
    => /\ Cardinality(ChatEntries(runs[j].msg)) = 1
       /\ runs[j].wrote = <<>>
       /\ runs[j].sent = <<>>
       /\ runs[j].mutated = "no"

\* C2: once an email was handled with outcome success, filtered or
\* cv_requested, a second email with the same From header and subject is
\* skipped by the dedup check: no entry, no candidate change, no reply.
EmailIdempotent ==
  \A i \in RunIds, j \in RunIds :
    (IsEmail(i) /\ IsEmail(j) /\ SameMessage(i, j) /\ Before(i, j)
       /\ runs[i].pc = "done" /\ Len(runs[i].wrote) = 1
       /\ runs[i].wrote[1] \in {"success", "filtered_non_eu", "cv_requested"}
       /\ Ended(j))
    => /\ runs[j].skipped
       /\ runs[j].wrote = <<>>
       /\ runs[j].sent = <<>>
       /\ runs[j].mutated = "no"

\* C3: a handler run on a message that had no ledger entry ends with
\* exactly one ledger entry for that message, whatever type and outcome.
LedgerEntryPerAttempt ==
  \A i \in RunIds :
    (Ended(i) /\ runs[i].fresh) => Cardinality(EntriesOf(i)) = 1

\* C4: no two rows of the Candidate table have the same email.
EmailUnique ==
  \A a \in CandidateIds, b \in CandidateIds :
    a # b => candidates[a].email # candidates[b].email

\* C4 witness: an INSERT of an email that a row already has was refused
DuplicateInsertRefused ==
  \E i \in RunIds :
    /\ runs[i].session_failed
    /\ \E k \in CandidateIds :
         /\ k # i
         /\ candidates[k].email = IdentityOf(i)
    /\ Cardinality(CandidateIds) >= 1

\* C5: once handling of a message has stopped (normally, by a failure, or
\* by a crash between steps), its candidate write and its success ledger
\* entry are both persisted or both absent.
ReconcileLedgerAtomic ==
  \A i \in RunIds :
    runs[i].pc \in Stopped
    => /\ runs[i].mutated # "no"
            => \E e \in WrittenBy(i) : e.status = "success"
       /\ (runs[i].parsed /\ \E e \in WrittenBy(i) : e.status = "success")
            => runs[i].mutated # "no"

\* the row invocation i inserts when its lookup finds none
RowOf(i) ==
  IF IsEmail(i) THEN EmailNewCandidate(runs[i], now)
  ELSE ChatNewCandidate(runs[i], now)

\* C6: two handlers that overlap and reconcile the same candidate email end
\* with one row for that email and one success entry each that references
\* it.  Stated for profiles whose row the table accepts when handled alone
\* (a name, and an email address of the sender or of the CV).
SerializedPerIdentity ==
  \A i \in RunIds, j \in RunIds :
    (Overlapped(i, j) /\ Ended(i) /\ Ended(j)
       /\ runs[i].parsed /\ runs[j].parsed
       /\ RowOf(i).name # None /\ RowOf(j).name # None
       /\ IsAddrToken(IdentityOf(i))
       /\ IdentityOf(i) = IdentityOf(j))
    => /\ Cardinality({k \in CandidateIds : candidates[k].email = IdentityOf(i)}) = 1
       /\ \A r \in {i, j} :
            \E e \in WrittenBy(r) :
              /\ e.status = "success"
              /\ e.candidate_id = CandidateByEmail(IdentityOf(i))

\* C7: two overlapping deliveries of the same chat message leave exactly
\* one ledger entry for (from, id) and change the candidate store at most
\* once.  Stated for the deliveries that wrote to the ledger.
ExactlyOnceRedelivery ==
  \A i \in RunIds, j \in RunIds :
    (IsChat(i) /\ IsChat(j) /\ SameMessage(i, j) /\ Overlapped(i, j)
       /\ Ended(i) /\ Ended(j) /\ runs[i].wrote # <<>>)
    => /\ Cardinality(ChatEntries(runs[i].msg)) = 1
       /\ ~(runs[i].mutated # "no" /\ runs[j].mutated # "no")

MergeReplacesCvFields ==
  [][\A i \in RunIds :
       MergeStep(i) =>
         LET old == candidates[runs[i].candidate]
             new == candidates'[runs[i].candidate]
             profile == runs[i].cv_data
         IN  /\ new.cv_text = profile.text
             /\ new.skills = Get(profile, "skills", <<>>)
             /\ new.experience_years = profile.experience_years
             /\ new.education = Get(profile, "education", <<>>)
             /\ new.work_experience = Get(profile, "work_experience", <<>>)
             /\ new.summary = Get(profile, "summary", None)
             /\ new.cv_filename = runs[i].cv_filename
             /\ new.last_updated > old.last_updated]_vars

\* C9 witness: a row whose skills were replaced by those of a later profile
MergedNewSkills ==
  \E i \in RunIds :
    /\ runs[i].mutated = "updated"
    /\ candidates[runs[i].candidate].skills = <<"Go", "Rust">>
    /\ candidates[runs[i].candidate].created_at
         < candidates[runs[i].candidate].last_updated

\* the message of invocation i does not match the allow-list
Ineligible(i) ==
  IF IsEmail(i)
  THEN \A k \in 1..Len(runs[i].msg.body) : runs[i].msg.body[k] \notin email_eu_codes
  ELSE LET cs == Chars(runs[i].msg.from)
       IN  Len(cs) < 2 \/ <<cs[1], cs[2]>> \notin wa_eu_codes

\* invocation i is past the eligibility check
PastGate(i) ==
  /\ runs[i].chan # "none"
  /\ ~runs[i].skipped
  /\ runs[i].pc # "lookup" \/ IsChat(i)

\* C10: with the flag on, a message that does not match the allow-list
\* gets the rejection reply and one ledger entry with the filtered status;
\* nothing is saved or parsed and no candidate is written.  A message that
\* matches, or any message with the flag off, goes on to normal processing.
EligibilityGate ==
  \A i \in RunIds :
    PastGate(i) =>
      IF filter_eu_only /\ Ineligible(i)
      THEN /\ runs[i].pc \in {"log_filtered", "done"}
           /\ runs[i].sent = <<"rejection">>
           /\ ~runs[i].parsed
           /\ i \notin uploads
           /\ runs[i].mutated = "no"
           /\ i \notin CandidateIds
           /\ runs[i].pc = "done"
                => /\ runs[i].wrote = <<"filtered_non_eu">>
                   /\ \E e \in WrittenBy(i) : e.status = "filtered_non_eu"
                   /\ Cardinality(WrittenBy(i)) = 1
      ELSE /\ runs[i].pc # "log_filtered"
           /\ \A k \in 1..Len(runs[i].sent) : runs[i].sent[k] # "rejection"
           /\ \A e \in WrittenBy(i) : e.status # "filtered_non_eu"

\* C10 witness: a message was rejected and its filtered entry written
RejectedAndLogged ==
  \E i \in RunIds :
    /\ filter_eu_only
    /\ runs[i].pc = "done"
    /\ runs[i].wrote = <<"filtered_non_eu">>
    /\ runs[i].sent = <<"rejection">>

\* invocation i handles a message that the dedup check and the filter let
\* through
Handled(i) ==
  /\ runs[i].chan # "none"
  /\ ~runs[i].skipped
  /\ ~(filter_eu_only /\ Ineligible(i))
  /\ runs[i].pc # "lookup" \/ IsChat(i)

\* the reply of lines 243-256 is among the replies of invocation i
Prompted(i) ==
  \E k \in 1..Len(runs[i].sent) : runs[i].sent[k] = "welcome"

\* C11: the handling of a chat text message that the dedup check and the
\* filter let through writes exactly one ledger entry, text_received,
\* writes no candidate, and sends the prompt-for-CV reply if and only if
\* the text contains 'cv', 'resume' or 'job' in any case.
TextDispatch ==
  \A i \in RunIds :
    (IsChat(i) /\ Handled(i) /\ runs[i].msg.type = "text")
    => /\ runs[i].pc \in {"dispatch", "log_text", "done"}
       /\ runs[i].mutated = "no"
       /\ i \notin CandidateIds
       /\ ~runs[i].parsed
       /\ runs[i].pc = "dispatch" => runs[i].sent = <<>>
       /\ runs[i].pc # "dispatch"
            => (Prompted(i) <=>
                  \E kw \in {"cv", "resume", "job"} :
                    LowerContains(runs[i].msg.text, kw))
       /\ runs[i].pc # "dispatch" => Len(runs[i].sent) <= 1
       /\ runs[i].pc # "done" => WrittenBy(i) = {}
       /\ runs[i].pc = "done"
            => /\ runs[i].wrote = <<"text_received">>
               /\ Cardinality(WrittenBy(i)) = 1
               /\ \A e \in WrittenBy(i) :
                    e.status = "text_received" /\ e.candidate_id = 0

\* C11 witness: a text with a keyword was prompted and logged, and a text
\* without keyword was logged without reply
TextPromptedAndNot ==
  \E i \in RunIds, j \in RunIds :
    /\ runs[i].msg.type = "text" /\ runs[j].msg.type = "text"
    /\ runs[i].pc = "done" /\ runs[j].pc = "done"
    /\ runs[i].wrote = <<"text_received">> /\ runs[j].wrote = <<"text_received">>
    /\ runs[i].sent = <<"welcome">>
    /\ runs[j].sent = <<>>

\* invocation i has ended, did not overlap with any other invocation, and
\* the file write of its attachment, if any, did not fail
EndedAlone(i) ==
  /\ Ended(i)
  /\ runs[i].peers = {}
  /\ runs[i].exc # "OSError"

\* the reply kind is among the replies of invocation i
Replied(i, kind) ==
  \E k \in 1..Len(runs[i].sent) : runs[i].sent[k] = kind

\* C12: the handling of a chat document with a CV extension ends, when the
\* download succeeded, with the candidate written, the confirmation sent
\* and one success entry that references the candidate; when the download
\* failed, with no candidate written and one download_failed entry.
DocumentDispatch ==
  \A i \in RunIds :
    (IsChat(i) /\ Handled(i) /\ EndedAlone(i)
       /\ runs[i].msg.type = "document" /\ IsCvFilename(runs[i].msg.filename))
    => IF runs[i].parsed
       THEN /\ runs[i].mutated # "no"
            /\ runs[i].candidate \in CandidateIds
            /\ Replied(i, "confirmation")
            /\ runs[i].wrote = <<"success">>
            /\ \A e \in WrittenBy(i) : e.candidate_id = runs[i].candidate
       ELSE /\ runs[i].mutated = "no"
            /\ i \notin CandidateIds
            /\ runs[i].wrote = <<"download_failed">>

\* C13: the handling of an email without CV attachment whose sender has no
\* candidate row sends the request-for-CV reply, writes exactly one entry,
\* cv_requested, writes no candidate and returns normally.
CvRequested ==
  \A i \in RunIds :
    (IsEmail(i) /\ Handled(i)
       /\ extract_cv_attachments(runs[i].msg) = <<>>
       /\ runs[i].existing_candidate = 0
       /\ runs[i].pc # "attachments")
    => /\ runs[i].pc \in {"log_cv_requested", "done"}
       /\ runs[i].sent = <<"cv_request">>
       /\ runs[i].mutated = "no"
       /\ i \notin CandidateIds
       /\ i \notin uploads
       /\ ~runs[i].parsed
       /\ runs[i].pc # "done" => WrittenBy(i) = {}
       /\ runs[i].pc = "done"
            => /\ runs[i].wrote = <<"cv_requested">>
               /\ Cardinality(WrittenBy(i)) = 1
               /\ \A e \in WrittenBy(i) :
                    /\ e.status = "cv_requested"
                    /\ e.candidate_id = 0

\* C13 witness: an email without CV of an unknown sender was answered and
\* logged; no row has the sender's address
CvRequestedAndLogged ==
  \E i \in RunIds :
    /\ IsEmail(i)
    /\ runs[i].msg.attachments = <<>>
    /\ runs[i].pc = "done"
    /\ runs[i].wrote = <<"cv_requested">>
    /\ runs[i].sent = <<"cv_request">>
    /\ CandidateByEmail(runs[i].sender_email_clean) = 0

\* C14: the handling of an email with a CV attachment whose sender has no
\* candidate row ends with exactly one new row (email = the sender address,
\* status new, source email, source_reference = the subject) and exactly
\* one ledger entry, success, that references the row.
EmailCreatesCandidate ==
  \A i \in RunIds :
    (IsEmail(i) /\ Handled(i) /\ EndedAlone(i)
       /\ extract_cv_attachments(runs[i].msg) # <<>>
       /\ runs[i].existing_candidate = 0)
    => /\ runs[i].mutated = "created"
       /\ i \in CandidateIds
       /\ Cardinality({k \in CandidateIds :
            candidates[k].email = runs[i].sender_email_clean}) = 1
       /\ i \in CandidateIds
            => /\ candidates[i].email = runs[i].sender_email_clean
               /\ candidates[i].status = "new"
               /\ candidates[i].source = "email"
               /\ candidates[i].source_reference = runs[i].msg.id
       /\ runs[i].wrote = <<"success">>
       /\ Cardinality(WrittenBy(i)) = 1
       /\ \A e \in WrittenBy(i) : e.status = "success" /\ e.candidate_id = i

\* C15: handle_webhook returns normally whatever the payload is and
\* whatever fails inside: an exception that reaches it, from reading the
\* payload or from process_whatsapp_message, is caught there.
WebhookNeverPropagates ==
  /\ webhook.pc # "propagated"
  /\ webhook.fault # "" => webhook.pc = "returned"
  /\ \A i \in RunIds :
       (runs[i].pc = "raised" /\ webhook.pc = "loop") => webhook.pos = i

\* C15 witness: the handler of a message raised and handle_webhook returned
FaultCaught ==
  /\ webhook.pc = "returned"
  /\ webhook.fault = "PendingRollbackError"
  /\ \E i \in RunIds : runs[i].pc = "raised"

\* C16: an exception raised while a message is handled, after the dedup
\* check, leaves exactly one ledger entry for the message: status error,
\* error_message the text of the exception.
ExceptionsBecomeErrorEntries ==
  \A i \in RunIds :
    (Ended(i) /\ runs[i].exc # "" /\ runs[i].peers = {} /\ runs[i].fresh)
    => /\ Cardinality(EntriesOf(i)) = 1
       /\ \A e \in EntriesOf(i) :
            /\ e.status = "error"
            /\ e.error_message \in {"OSError", "IntegrityError"}

\* C17: in a poll cycle every message the search listed is fetched, in the
\* order of the list, whatever happened to the messages before it: a fetch
\* that failed, a process_email that raised, a store that failed.
PollerIsolation ==
  /\ poller.pc = "loop"
       => poller.attempted = SubSeq(poller.email_ids, 1, poller.pos - 1)
  /\ poller.pc = "call"
       => /\ poller.attempted = SubSeq(poller.email_ids, 1, poller.pos)
          /\ runs[poller.run].chan = "email"
               => runs[poller.run].msg = poller.inbox[poller.email_ids[poller.pos]]
  /\ (poller.pc \in {"logout", "sleep"} /\ poller.email_ids # <<>>)
       => poller.attempted = poller.email_ids

\* C17 witness: process_email raised for one message of a cycle and a later
\* message of the same cycle was processed
RaisedThenProcessed ==
  \E i \in RunIds, j \in RunIds :
    /\ i < j
    /\ poller.cycle = 1
    /\ poller.pc = "sleep"
    /\ runs[i].pc = "raised"
    /\ runs[j].pc = "done"
    /\ runs[j].wrote # <<>>

\* C18: handle_webhook hands every message of its payload to
\* process_whatsapp_message, whatever happened to the messages before it.
BatchIsolation ==
  (webhook.pc = "returned" /\ webhook.data = "object")
    => \A k \in 1..Len(webhook.messages) : runs[k].chan = "whatsapp"

\* C19: a cycle whose connection failed changes no table, no file, no
\* handler and no seen flag and sends nothing; the search of a later cycle
\* lists every message that is still unseen.
ConnectFailureFrame ==
  [][/\ (poller.outcome = "no_connection" \/ poller'.outcome = "no_connection")
          => /\ UNCHANGED <<candidates, email_log, whatsapp_log, uploads,
                            runs, started>>
             /\ poller'.seen = poller.seen
             /\ poller'.inbox = poller.inbox
     /\ (poller.last = "no_connection" /\ poller.pc = "search"
           /\ poller'.pc = "loop")
          => poller'.email_ids = Unseen(poller)]_vars

\* C19 witness: the first cycle did not connect, the second one processed
\* a message to its success entry
PickedUpAfterFailedConnect ==
  \E i \in RunIds :
    /\ poller.last = "no_connection"
    /\ poller.cycle = 2
    /\ runs[i].pc = "done"
    /\ runs[i].wrote = <<"success">>
    /\ poller.email_ids[1] = 1

\* C20: start_monitoring sleeps 300 seconds after a cycle that failed at
\* cycle level (no connection, select or search failed, logout failed) and
\* 60 seconds only after a cycle that succeeded.
BackoffAfterFailedCycle ==
  (poller.pc = "sleep" /\ poller.credentials)
    => /\ poller.outcome # "ok" => poller.slept = 300
       /\ poller.slept = 60 => poller.outcome = "ok"

\* C21: without mailbox user or password the poller ends its loop: no
\* second poll cycle is started.
NotConfiguredExits ==
  ~poller.credentials => poller.cycle <= 1

\* C22: with credentials, the poller goes from cycle to cycle whether a
\* cycle succeeded, failed at connect or raised: it reaches the last cycle
\* of the model, so every cycle before it was followed by another one.
LoopNeverStops ==
  poller.credentials => <>(poller.cycle = MaxCycles)

\* a cycle started after one whose logout raised
CycleAfterRaisedCycle ==
  /\ poller.credentials
  /\ poller.cycle = 2
  /\ poller.last = "logout_error"

\* invocation j handled a CV without email address that the phone of
\* invocation i sent as a new message after i had created a candidate from
\* a CV without email address
SecondCvWithoutEmail(i, j) ==
  /\ Before(i, j)
  /\ IsChat(i) /\ IsChat(j)
  /\ runs[i].msg.from = runs[j].msg.from
  /\ runs[i].msg.id # runs[j].msg.id
  /\ runs[i].parsed /\ runs[j].parsed
  /\ Falsy(Get(runs[i].cv_data, "email", None))
  /\ Falsy(Get(runs[j].cv_data, "email", None))
  /\ runs[i].mutated = "created"
  /\ EndedAlone(j)

\* C23: a second CV without email address that a phone sends as a new
\* message is merged into the candidate created from the first: one
\* candidate, updated by the second handling, which ends with a success
\* entry.
SyntheticIdentityLookup ==
  \A i, j \in RunIds :
    SecondCvWithoutEmail(i, j)
      => /\ runs[j].mutated = "updated"
         /\ runs[j].candidate = runs[i].candidate
         /\ \E e \in ChatEntries(runs[j].msg) : e.status = "success"

\* the step leaves the rows of the table as they are and adds at most one
\* row, whose id no row had
InsertOnly(table, table_next) ==
  /\ table \subseteq table_next
  /\ Cardinality(table_next) <= Cardinality(table) + 1
  /\ \A e \in table_next \ table : \A f \in table : f.id # e.id

\* C24: no step of a channel handler changes or removes a ledger entry;
\* a ledger write is the insertion of one new entry.
LedgerWriteOnce ==
  [][/\ InsertOnly(email_log, email_log')
     /\ InsertOnly(whatsapp_log, whatsapp_log')]_vars

\* the ledger holds two entries of one email: the second one was written
\* with the first in place
TwoEntriesOfOneEmail ==
  \E e, f \in email_log :
    /\ e.id # f.id
    /\ e.sender_email = f.sender_email
    /\ e.subject = f.subject

\* invocation i wrote a ledger entry with status error
WroteError(i) ==
  \E k \in 1..Len(runs[i].wrote) : runs[i].wrote[k] = "error"

\* C25: a handling that wrote an error entry sent no reply, and a handling
\* that sent a reply writes no error entry.
SilenceOnError ==
  \A i \in RunIds : WroteError(i) => runs[i].sent = <<>>

\* a handling ended with an error entry
EndedWithError ==
  \E i \in RunIds : Ended(i) /\ WroteError(i) /\ runs[i].exc = "OSError"

\* parse_cv_file has called the function
Called(callee) ==
  \E k \in 1..Len(parser.calls) : parser.calls[k] = callee

\* C26: when the extraction yields the empty text, parse_cv_file returns
\* the all-null profile with the empty text and calls neither the AI parser
\* nor the regex fallback.
EmptyTextSkipsAi ==
  (Called("extract_text_from_file") /\ parser.cv_text = <<>>)
    => /\ ~Called("parse_cv_with_ai")
       /\ ~Called("extract_basic_info_regex")
       /\ parser.pc = "returned"
            => parser.cv_data =
                 [text |-> <<>>, name |-> None, email |-> None, phone |-> None,
                  location |-> None, summary |-> None, skills |-> <<>>,
                  experience_years |-> 0, education |-> <<>>,
                  work_experience |-> <<>>]

\* parse_cv_file returned for a stored PDF without extractable text
ReturnedForScannedPdf ==
  /\ parser.pc = "returned"
  /\ parser.cv_text = <<>>
  /\ parser.file.state = "stored"
  /\ parser.file.filename = "cv.pdf"

\* the fields the fallback can fill
FallbackFields == {"email", "name", "phone"}

\* parse_cv_file returned after the AI pass
ReturnedAfterAi == parser.pc = "returned" /\ Called("parse_cv_with_ai")

\* the raw extracted text is attached to the result
TextAttached == parser.cv_data.text = parser.cv_text

\* C27 as stated: the fallback runs only when the AI pass left email or
\* name null, every non-null email, name or phone of the AI pass is in the
\* result, and the raw text is attached.
FallbackOnlyCompletes ==
  ReturnedAfterAi
    => /\ Called("extract_basic_info_regex")
            => \/ Get(parser.ai_data, "email", None) = None
               \/ Get(parser.ai_data, "name", None) = None
       /\ \A k \in FallbackFields :
            Get(parser.ai_data, k, None) # None
              => Get(parser.cv_data, k, None) = parser.ai_data[k]
       /\ TextAttached

\* C27, amended: the fallback runs exactly when the AI pass left email or
\* name null or empty; a field the AI pass left null or empty takes the
\* value the fallback found, if it ran and found one; every other field of
\* the AI pass is in the result as it was; the raw text is attached.
FallbackCompletesFalsy ==
  ReturnedAfterAi
    => /\ Called("extract_basic_info_regex")
            <=> \/ Falsy(Get(parser.ai_data, "email", None))
                \/ Falsy(Get(parser.ai_data, "name", None))
       /\ \A k \in FallbackFields :
            IF /\ Called("extract_basic_info_regex")
               /\ Falsy(Get(parser.ai_data, k, None))
               /\ ~Falsy(extract_basic_info_regex(parser.cv_text)[k])
            THEN parser.cv_data[k] = extract_basic_info_regex(parser.cv_text)[k]
            ELSE Get(parser.cv_data, k, None) = Get(parser.ai_data, k, None)
       /\ \A k \in DOMAIN parser.ai_data \ FallbackFields :
            parser.cv_data[k] = parser.ai_data[k]
       /\ DOMAIN parser.cv_data \subseteq
            DOMAIN parser.ai_data \cup FallbackFields \cup {"text"}
       /\ TextAttached

\* the AI pass returned an empty string for the email, and the result has
\* the address the fallback found
EmptyEmailFilled ==
  /\ ReturnedAfterAi
  /\ Called("extract_basic_info_regex")
  /\ Get(parser.ai_data, "email", None) = ""
  /\ parser.cv_data.email = "jane@x.com"

\* the answer of the service is a failure: no connection, an error
\* response, malformed JSON or JSON that is not an object
ServiceFailed ==
  parser.file.content.ai.kind \in {"network_error", "error", "malformed", "non_object"}

\* C28: when the service fails, parse_cv_with_ai returns the default
\* profile and no exception reaches its caller.
AiFailureIsValue ==
  (Called("parse_cv_with_ai") /\ ServiceFailed)
    => /\ parser.pc # "raised"
       /\ parser.ai_data =
            [name |-> None, email |-> None, phone |-> None, location |-> None,
             summary |-> None, skills |-> <<>>, experience_years |-> 0,
             education |-> <<>>, work_experience |-> <<>>]

\* parse_cv_with_ai was called and the service answered with JSON that is
\* not an object
CalledWithNonObject ==
  /\ Called("parse_cv_with_ai")
  /\ parser.file.content.ai.kind = "non_object"
  /\ parser.pc = "returned"

\* there is no file of a supported format the reader of the format can read
ExtractionFails(file) ==
  \/ file.state \in {"missing", "unreadable", "empty"}
  \/ LowerExt(file.filename) \notin {".pdf", ".docx", ".txt", ".doc"}
  \/ /\ file.state = "corrupt"
     /\ LowerExt(file.filename) \in {".pdf", ".docx"}

\* C29: extract_text_from_file raises nothing, whatever is at the path;
\* it returns the empty text for a missing file, a file that cannot be
\* opened, a zero-byte file, an unsupported extension and a PDF or DOCX
\* the library cannot read, and for a text file that is not UTF-8 the
\* latin-1 reading of its bytes.
ExtractionFailureIsValue ==
  Called("extract_text_from_file")
    => /\ parser.pc # "raised"
       /\ parser.cv_text \in Seq(Seq(STRING))
       /\ ExtractionFails(parser.file) => parser.cv_text = <<>>
       /\ (/\ parser.file.state = "corrupt"
           /\ LowerExt(parser.file.filename) \in {".txt", ".doc"})
            => parser.cv_text = Strip(parser.file.content.text)

\* the extraction went through a PDF the library cannot read
ExtractedCorruptPdf ==
  /\ Called("extract_text_from_file")
  /\ parser.file.state = "corrupt"
  /\ parser.file.filename = "cv.pdf"
  /\ parser.file.content.text # <<>>
  /\ parser.pc = "returned"

\* what the normalization is to make of the experience_years of the answer
ExpectedYears(result) ==
  LET raw == Get(result, "experience_years", JNull)
  IN  CASE raw.t = "str" -> IF SearchInt(raw.s)[1] THEN SearchInt(raw.s)[2] ELSE 0
        [] raw.t = "int" -> raw.n
        [] OTHER -> 0

\* C30: in the output of parse_cv_with_ai, experience_years is the first
\* integer substring of a free-text value ("5 years" gives 5) or 0 when
\* there is none ("five" gives 0), the value of an integer (7 gives 7),
\* and 0 for an absent, null or other non-numeric value.
ExperienceYearsNormalized ==
  (Called("parse_cv_with_ai") /\ parser.file.content.ai.kind = "object")
    => parser.ai_data.experience_years = ExpectedYears(parser.file.content.ai.result)

\* the message the loop of check_emails is at
Current == poller.email_ids[poller.pos]

\* C34: a message is marked seen only after process_email has returned for
\* it, and it is marked in that cycle exactly when process_email returned;
\* a message whose fetch failed or whose processing raised stays unseen.
MarkSeenOrdering ==
  [][/\ poller'.pc = "call" => Current' \notin poller'.seen
     /\ (poller.pc = "call" /\ poller'.pc # "call")
          => (Current \in poller'.seen <=> runs[poller.run].pc = "done")
     /\ (poller.pc = "loop" /\ poller'.pc # "call")
          => Current \notin poller'.seen]_vars

\* C31: the experience_years of the profile parse_cv_with_ai returns, and
\* of the profile parse_cv_file returns, is a non-negative integer.
ExperienceYearsRange ==
  /\ (Called("parse_cv_with_ai") /\ parser.pc # "raised")
       => parser.ai_data.experience_years \in Nat
  /\ parser.pc = "returned" => parser.cv_data.experience_years \in Nat

\* the keys parse_cv_with_ai coerces to lists
ListKeys == {"skills", "education", "work_experience"}

\* C32: the profile parse_cv_with_ai returns has skills, education and
\* work_experience, each a list: the list of the service when it gave one,
\* the empty list when it gave something else or left the key out.
ListCoercion ==
  (Called("parse_cv_with_ai") /\ parser.pc # "raised")
    => \A k \in ListKeys :
         /\ k \in DOMAIN parser.ai_data
         /\ LET result == parser.file.content.ai.result
            IN  parser.ai_data[k] =
                  IF /\ parser.file.content.ai.kind = "object"
                     /\ k \in DOMAIN result
                     /\ IsList(result[k])
                  THEN result[k].l
                  ELSE <<>>

\* invocation i ended, on its own, with a candidate written from a profile
\* that has an email address
WroteParsedEmail(i) ==
  /\ EndedAlone(i)
  /\ runs[i].parsed
  /\ runs[i].mutated # "no"
  /\ ~Falsy(Get(runs[i].cv_data, "email", None))

\* C33: the candidate an email's profile is written to is the one whose
\* email is the parsed address, so that two handlings of CVs with the same
\* parsed address, by email or by chat, write to one candidate.
EmailLooksUpParsedEmail ==
  \A i \in RunIds :
    WroteParsedEmail(i)
      => /\ IsEmail(i)
              => candidates[runs[i].candidate].email = runs[i].cv_data.email
         /\ \A j \in RunIds :
              (WroteParsedEmail(j) /\ runs[j].cv_data.email = runs[i].cv_data.email)
                => runs[j].candidate = runs[i].candidate

\* C35: an inbound message causes at most one reply: one handling sends at
\* most one, and of two handlings of the same message, one after the
\* other, at most one sends a reply.
OneReplyPerMessage ==
  \A i \in RunIds :
    /\ Len(runs[i].sent) <= 1
    /\ \A j \in RunIds :
         (Before(i, j) /\ SameMessage(i, j))
           => ~(runs[i].sent # <<>> /\ runs[j].sent # <<>>)

\* C36: an email with a CV from a sender without candidate, whose parsed
\* profile has no name, creates a candidate named after the sender header
\* and ends with a success entry.
NullNameCreates ==
  \A i \in RunIds :
    (/\ EndedAlone(i)
     /\ IsEmail(i)
     /\ runs[i].parsed
     /\ runs[i].existing_candidate = 0
     /\ Get(runs[i].cv_data, "name", None) = None)
      => /\ runs[i].mutated = "created"
         /\ runs[i].candidate \in DOMAIN candidates
         /\ candidates[runs[i].candidate].name = runs[i].sender_name
         /\ runs[i].wrote = <<"success">>

\* C37: every ledger entry with status success, of either channel, has the
\* id of a candidate row in the store as candidate_id; every entry with
\* another status has no candidate_id.
SuccessReferencesCandidate ==
  \A e \in email_log \cup whatsapp_log :
    IF e.status = "success"
    THEN e.candidate_id # 0 /\ e.candidate_id \in CandidateIds
    ELSE e.candidate_id = 0

SuccessInBothLedgers ==
  /\ \E e \in email_log : e.status = "success"
  /\ \E e \in whatsapp_log : e.status = "success"

FrameFields == {"email", "status", "source", "source_reference", "created_at"}

\* C38: the step that merges a profile into an existing row, in either
\* channel, leaves the row under its id with its email, status, source,
\* source_reference and created_at, and leaves every other row as it was:
\* a status set by a reviewer is kept.
MergeFrame ==
  [][\A i \in RunIds :
       MergeStep(i)
         => LET c == runs[i].candidate
            IN  /\ DOMAIN candidates' = DOMAIN candidates
                /\ \A f \in FrameFields : candidates'[c][f] = candidates[c][f]
                /\ \A d \in CandidateIds \ {c} : candidates'[d] = candidates[d]]_vars

MergedAfterReview ==
  \E i \in RunIds :
    /\ Ended(i)
    /\ runs[i].mutated = "updated"
    /\ runs[i].status_found \in CandidateStatus \ {"new"}
    /\ candidates[runs[i].candidate].status = runs[i].status_found
    /\ candidates[runs[i].candidate].cv_filename = i

\* invocation i handles an email without CV attachment whose sender has a
\* candidate row, and is past the branch of lines 169-196
KnownSenderNoCv(i) ==
  /\ IsEmail(i)
  /\ Handled(i)
  /\ extract_cv_attachments(runs[i].msg) = <<>>
  /\ runs[i].existing_candidate # 0
  /\ runs[i].pc # "attachments"

\* C39: the handling of an email without CV attachment whose sender has a
\* candidate row changes no candidate row in any of its steps, sends the
\* confirmation reply, and writes exactly one ledger entry, success, that
\* references the row of the sender.
KnownSenderConfirmed ==
  [][\A i \in RunIds :
       KnownSenderNoCv(i)'
         => /\ runs'[i] # runs[i] => candidates' = candidates
            /\ runs'[i].mutated = "no"
            /\ ~runs'[i].parsed
            /\ runs'[i].pc \in {"confirm", "log_success", "done"}
            /\ runs'[i].pc = "confirm" => runs'[i].sent = <<>>
            /\ runs'[i].pc # "confirm" => runs'[i].sent = <<"confirmation">>
            /\ runs'[i].pc # "done" => WrittenBy(i)' = {}
            /\ runs'[i].pc = "done"
                 => /\ runs'[i].wrote = <<"success">>
                    /\ Cardinality(WrittenBy(i)') = 1
                    /\ \A e \in WrittenBy(i)' :
                         /\ e.status = "success"
                         /\ e.candidate_id = runs'[i].existing_candidate
                         /\ e.candidate_id
                              = CandidateByEmail(runs[i].sender_email_clean)']_vars

KnownSenderAnswered ==
  \E i \in RunIds :
    /\ KnownSenderNoCv(i)
    /\ runs[i].msg.attachments = <<>>
    /\ runs[i].pc = "done"
    /\ runs[i].sent = <<"confirmation">>
    /\ runs[i].wrote = <<"success">>

\* the ledger statuses a handler writes after the reply of a kind
LedgerAfter(kind) ==
  CASE kind = "rejection" -> <<"filtered_non_eu">>
    [] kind = "cv_request" -> <<"cv_requested">>
    [] kind = "download_failed" -> <<"download_failed">>
    [] kind = "welcome" -> <<"text_received">>
    [] kind = "confirmation" -> <<"success">>
    [] OTHER -> <<>>

\* invocations i and j took the same branch in the same channel and found
\* the same in the store
SameCase(i, j) ==
  /\ runs[i].chan = runs[j].chan
  /\ runs[i].sent = runs[j].sent
  /\ runs[i].parsed = runs[j].parsed
  /\ (runs[i].existing_candidate = 0) = (runs[j].existing_candidate = 0)

\* C40: in both channels, a handler whose reply was not sent goes on as the
\* one whose reply was sent: it does not reach the except clause and sends
\* no second reply, it ends with the ledger status of the reply's branch and
\* no error entry, and its ledger statuses and its candidate write are those
\* of an invocation of the same case whose reply was sent.
FailedReplySameOutcome ==
  \A i \in RunIds :
    runs[i].lost # <<>>
      => /\ runs[i].sent = runs[i].lost
         /\ Len(runs[i].sent) = 1
         /\ runs[i].exc = ""
         /\ runs[i].pc \notin {"except", "raised"}
         /\ runs[i].mutated # "no"
              <=> (runs[i].sent = <<"confirmation">> /\ runs[i].parsed)
         /\ runs[i].pc = "done"
              => /\ runs[i].wrote = LedgerAfter(runs[i].sent[1])
                 /\ \A e \in WrittenBy(i) : e.status # "error"
         /\ \A j \in RunIds :
              (/\ runs[j].lost = <<>>
               /\ SameCase(i, j)
               /\ runs[i].pc = "done"
               /\ runs[j].pc = "done")
                => /\ runs[i].wrote = runs[j].wrote
                   /\ runs[i].mutated = runs[j].mutated

LostAndSentAlike ==
  \E i, j \in RunIds :
    /\ runs[i].lost = <<"confirmation">>
    /\ runs[j].lost = <<>>
    /\ SameCase(i, j)
    /\ runs[i].pc = "done"
    /\ runs[j].pc = "done"
    /\ runs[i].wrote = <<"success">>

====
